---------------------------- MODULE Spec2Model ----------------------------
(***************************************************************************)
(* A model of the query / aggregation engine of ios_mcp                    *)
(* (src/src/database.py, src/src/server.py).                               *)
(*                                                                         *)
(* Data encoding.  A Python value is a record [t, n, d, s, l]: t is its    *)
(* type ("null", "num", "str", "list"), n / d its number, s its text as a  *)
(* sequence of character codes, l its items.  Numbers are non-negative     *)
(* rationals (int and float alike); a Python bool compares and sorts as a  *)
(* number and takes the same branches as "num".  A document (a Python      *)
(* dict) is a function from field names to values.  A Python exception is  *)
(* the outcome "ERR" (err |-> TRUE for a stage).                           *)
(***************************************************************************)
EXTENDS Integers, Sequences, FiniteSets, TLC

VARIABLES
    initial_docs,   \* the documents an in-memory run started from
    prev_docs,      \* current_docs before the last stage ran
    current_docs,   \* the documents threaded through the stages
    trail,          \* the stage arguments applied so far, in order
    raised,         \* TRUE once a stage raised an exception
    store,          \* the collection: documents in insertion order
    call,           \* the arguments of the last handler call
    ret,            \* what the last handler call returned
    cache,          \* the key cache file (metadata_keys.json)
    disk,           \* the bytes of the key cache file under concurrent access
    threads,        \* the position of each concurrent key lookup
    caller,         \* a pipeline object a caller holds, and what its runs returned
    scan,           \* the run of scan_photos: its chunks, workers and results
    local,          \* the destination folder on the local disk and the last copy into it
    device          \* the media files on the device, and the last scan_and_cache_photos

vars ==
    <<initial_docs, prev_docs, current_docs, trail, raised, store, call, ret, cache, disk, threads, caller, scan, local, device>>

---------------------------------------------------------------------------
(* Scalars *)

None == [t |-> "null", n |-> 0, d |-> 1, s |-> <<>>, l |-> <<>>]
Num(n) == [t |-> "num", n |-> n, d |-> 1, s |-> <<>>, l |-> <<>>]
Str(s) == [t |-> "str", n |-> 0, d |-> 1, s |-> s, l |-> <<>>]
\* a Python list of scalars
List(l) == [t |-> "list", n |-> 0, d |-> 1, s |-> <<>>, l |-> l]

RECURSIVE Gcd(_, _)
Gcd(a, b) == IF b = 0 THEN a ELSE Gcd(b, a % b)

\* the number n / d (n >= 0, d > 0), in lowest terms
Rat(n, d) ==
    [t |-> "num", n |-> n \div Gcd(n, d), d |-> d \div Gcd(n, d), s |-> <<>>, l |-> <<>>]

\* text literals, as character codes
S_a == <<97>>
S_b == <<98>>
S_2 == <<50>>
S_empty == <<>>

\* dict.get(key): None when the key is absent
Get(doc, key) == IF key \in DOMAIN doc THEN doc[key] ELSE None

RECURSIVE LexLess(_, _)
\* str.__lt__: lexicographic order on code points
LexLess(x, y) ==
    IF y = <<>> THEN FALSE
    ELSE IF x = <<>> THEN TRUE
    ELSE IF Head(x) = Head(y) THEN LexLess(Tail(x), Tail(y))
    ELSE Head(x) < Head(y)

\* a < b in Python 3: defined between two numbers and between two strings,
\* TypeError for every other pair (None included)
PyLess(a, b) ==
    IF a.t = "num" /\ b.t = "num" THEN (IF a.n * b.d < b.n * a.d THEN "T" ELSE "F")
    ELSE IF a.t = "str" /\ b.t = "str" THEN (IF LexLess(a.s, b.s) THEN "T" ELSE "F")
    ELSE "ERR"

\* a <= b in Python 3
PyLessEq(a, b) ==
    IF PyLess(b, a) = "ERR" THEN "ERR"
    ELSE IF PyLess(b, a) = "T" THEN "F" ELSE "T"

\* x in "text": substring test
IsSubstr(x, y) ==
    /\ Len(x) <= Len(y)
    /\ \E i \in 0..(Len(y) - Len(x)) : SubSeq(y, i + 1, i + Len(x)) = x

RECURSIVE Reverse(_)
Reverse(seq) == IF seq = <<>> THEN <<>> ELSE Append(Reverse(Tail(seq)), Head(seq))

Range(seq) == {seq[i] : i \in 1..Len(seq)}

---------------------------------------------------------------------------
(* Filter criteria.  A criteria dict is the sequence of its items [k, e] in *)
(* dict order.  The value e of an item is a literal, a dict of operators    *)
(* (a sequence of [op, val]) or a list of sub-criteria; an operand val is a *)
(* literal or a list of literals.                                           *)

LitE(v) == [kind |-> "lit", lit |-> v, ops |-> <<>>, subs |-> <<>>]
DictE(ops) == [kind |-> "dict", lit |-> None, ops |-> ops, subs |-> <<>>]
ListE(subs) == [kind |-> "list", lit |-> None, ops |-> <<>>, subs |-> subs]

LitV(v) == [kind |-> "lit", lit |-> v, items |-> <<>>]
ListV(items) == [kind |-> "list", lit |-> None, items |-> items]

Leaf(field, v) == <<[k |-> field, e |-> LitE(v)]>>
Cond(field, op, val) == <<[k |-> field, e |-> DictE(<<[op |-> op, val |-> val]>>)]>>
And(subs) == <<[k |-> "$and", e |-> ListE(subs)]>>
Or(subs) == <<[k |-> "$or", e |-> ListE(subs)]>>

\* actual > op_val and its three siblings; an operand that is a list is
\* not orderable against a scalar
Ordered(op, actual, val) ==
    IF val.kind = "list" THEN "ERR"
    ELSE IF op = "$gt" THEN PyLess(val.lit, actual)
    ELSE IF op = "$gte" THEN PyLessEq(val.lit, actual)
    ELSE IF op = "$lt" THEN PyLess(actual, val.lit)
    ELSE PyLessEq(actual, val.lit)

\* actual == op_val
EqualsOperand(actual, val) == val.kind = "lit" /\ actual = val.lit

\* actual in op_val: list membership, substring of a string operand,
\* TypeError when the operand is not iterable or when a non-string is
\* looked up in a string
Contained(actual, val) ==
    IF val.kind = "list" THEN (IF actual \in Range(val.items) THEN "T" ELSE "F")
    ELSE IF val.lit.t = "str" /\ actual.t = "str"
         THEN (IF IsSubstr(actual.s, val.lit.s) THEN "T" ELSE "F")
    ELSE "ERR"

\* ApplyOp as it would be with the "actual is not None" guards left out
ApplyOp_Unguarded(op, actual, val) ==
    IF op \in {"$gt", "$gte", "$lt", "$lte"} THEN Ordered(op, actual, val)
    ELSE IF op = "$ne" THEN
        IF EqualsOperand(actual, val) THEN "F" ELSE "T"
    ELSE IF op = "$in" THEN
        Contained(actual, val)
    ELSE IF op = "$nin" THEN
        IF Contained(actual, val) = "ERR" THEN "ERR"
        ELSE IF Contained(actual, val) = "T" THEN "F" ELSE "T"
    ELSE "T"

\* One branch of the operator chain of _check_condition: "F" when the
\* branch returns False, "ERR" when it raises, "T" when the loop goes on.
\* An operator that no branch names falls through the chain.
ApplyOp(op, actual, val) ==
    IF op \in {"$gt", "$gte", "$lt", "$lte"} THEN
        IF actual = None THEN "F" ELSE Ordered(op, actual, val)
    ELSE IF op = "$ne" THEN
        IF EqualsOperand(actual, val) THEN "F" ELSE "T"
    ELSE IF op = "$in" THEN
        Contained(actual, val)
    ELSE IF op = "$nin" THEN
        IF Contained(actual, val) = "ERR" THEN "ERR"
        ELSE IF Contained(actual, val) = "T" THEN "F" ELSE "T"
    ELSE "T"

RECURSIVE CheckOps(_, _, _)
\* for op, op_val in expected.items()
CheckOps(actual, ops, j) ==
    IF j > Len(ops) THEN "T"
    ELSE LET r == ApplyOp(ops[j].op, actual, ops[j].val)
         IN IF r = "T" THEN CheckOps(actual, ops, j + 1) ELSE r

\* the body of the loop of _check_condition for one item of the condition;
\* a value that is a list (the members of a nested $and / $or) takes the
\* equality branch and differs from every scalar
CheckEntry(doc, key, expected) ==
    LET actual == Get(doc, key)
    IN IF expected.kind = "dict" THEN CheckOps(actual, expected.ops, 1)
       ELSE IF expected.kind = "lit" /\ actual = expected.lit THEN "T"
       ELSE "F"

RECURSIVE CheckItems(_, _, _)
\* for key, expected in condition.items()
CheckItems(doc, condition, i) ==
    IF i > Len(condition) THEN "T"
    ELSE LET r == CheckEntry(doc, condition[i].k, condition[i].e)
         IN IF r = "T" THEN CheckItems(doc, condition, i + 1) ELSE r

_check_condition(doc, condition) == CheckItems(doc, condition, 1)

\* iterating the value of a "$or" / "$and" key: a list yields its members,
\* an empty dict or empty string yields nothing, anything else makes the
\* generator raise
IterRaises(e) ==
    \/ e.kind = "dict" /\ e.ops # <<>>
    \/ e.kind = "lit" /\ ~(e.lit.t = "str" /\ e.lit.s = <<>>)

RECURSIVE AnyCheck(_, _, _)
\* any(self._check_condition(doc, sub) for sub in value)
AnyCheck(doc, subs, i) ==
    IF i > Len(subs) THEN "F"
    ELSE LET r == _check_condition(doc, subs[i])
         IN IF r = "F" THEN AnyCheck(doc, subs, i + 1) ELSE r

RECURSIVE AllCheck(_, _, _)
\* all(self._check_condition(doc, sub) for sub in value)
AllCheck(doc, subs, i) ==
    IF i > Len(subs) THEN "T"
    ELSE LET r == _check_condition(doc, subs[i])
         IN IF r = "T" THEN AllCheck(doc, subs, i + 1) ELSE r

\* one item of the criteria of _stage_match
MatchEntry(doc, key, value) ==
    IF key = "$or" THEN
        IF IterRaises(value) THEN "ERR" ELSE AnyCheck(doc, value.subs, 1)
    ELSE IF key = "$and" THEN
        IF IterRaises(value) THEN "ERR" ELSE AllCheck(doc, value.subs, 1)
    ELSE _check_condition(doc, <<[k |-> key, e |-> value]>>)

RECURSIVE MatchDoc(_, _, _)
\* for key, value in criteria.items(): ... break on the first failure
MatchDoc(doc, criteria, i) ==
    IF i > Len(criteria) THEN "T"
    ELSE LET r == MatchEntry(doc, criteria[i].k, criteria[i].e)
         IN IF r = "T" THEN MatchDoc(doc, criteria, i + 1) ELSE r

RECURSIVE MatchFrom(_, _, _, _)
\* for doc in docs: ... filtered.append(doc)
MatchFrom(docs, criteria, i, filtered) ==
    IF i > Len(docs) THEN [err |-> FALSE, docs |-> filtered]
    ELSE LET r == MatchDoc(docs[i], criteria, 1)
         IN IF r = "ERR" THEN [err |-> TRUE, docs |-> <<>>]
            ELSE MatchFrom(docs, criteria, i + 1,
                           IF r = "T" THEN Append(filtered, docs[i]) ELSE filtered)

\* Database._stage_match: the kept documents, or err when it raised
_stage_match(docs, criteria) == MatchFrom(docs, criteria, 1, <<>>)

---------------------------------------------------------------------------
(* Documents and inputs *)

Doc1 == [SourceFile |-> Str(<<47, 49>>), Make |-> Str(S_a), ISO |-> Num(2)]
Doc2 == [SourceFile |-> Str(<<47, 50>>), Make |-> Str(S_b), ISO |-> Num(1)]
Doc3 == [SourceFile |-> Str(<<47, 51>>), Make |-> Str(S_a), ISO |-> Num(1)]
Doc4 == [SourceFile |-> Str(<<47, 52>>), Make |-> Str(S_b)]
Doc5 == [SourceFile |-> Str(<<47, 53>>), Make |-> Str(S_a), ISO |-> Str(S_2)]

DocPool == {Doc1, Doc2, Doc3, Doc4, Doc5}

\* no handler was called yet / the handler returned nothing
NoCall == [op |-> "none"]
NoRet == [raised |-> FALSE, docs |-> <<>>, text |-> "none", reads |-> 0]

\* the cache file does not exist
NoCache == [exists |-> FALSE, keys |-> <<>>]

\* the cache file does not exist (as bytes)
NoDisk == [exists |-> FALSE, text |-> <<>>]

\* no concurrent lookup is under way
NoThreads == <<>>

\* scan_photos does not run
NoScan == [phase |-> "idle"]

\* nothing was copied: the destination folder exists and is empty
NoLocal == [folder |-> "dir", files |-> {}, source_paths |-> <<>>, copied |-> <<>>, reply |-> [kind |-> "none"]]

\* no device was scanned
NoDevice == [files |-> <<>>, added |-> 0, scans |-> 0, clean |-> FALSE, last |-> [kind |-> "none"]]

\* no caller holds a pipeline object
NoCaller == [given |-> <<>>, now |-> <<>>, runs |-> <<>>]

\* the longest document sequence
MaxDocs == 2

\* sequences of at most n distinct documents of the pool
DocSeqs(n) ==
    UNION {{q \in [1..m -> DocPool] : \A i, j \in 1..m : i # j => q[i] # q[j]} : m \in 0..n}

\* the most stages one in-memory run applies
MaxStages == 2

\* the operators the $match documentation of run_aggregation_pipeline lists
KnownOps == {"$eq", "$ne", "$gt", "$gte", "$lt", "$lte", "$in", "$nin"}

OrderOps == {"$gt", "$gte", "$lt", "$lte"}

\* operator conditions {field: {op: operand}}
OpCriteria ==
    {Cond("ISO", op, LitV(v)) : op \in OrderOps \cup {"$ne"}, v \in {Num(1), None}}
    \cup {Cond("ISO", op, ListV(<<v>>)) : op \in {"$in", "$nin"}, v \in {Num(1), None}}
    \cup {Cond("ISO", "$lt", LitV(Str(S_2))),
          Cond("Model", "$gt", LitV(Num(1))),
          Cond("Model", "$ne", LitV(Str(S_a))),
          Cond("ISO", "$regex", LitV(Str(S_2))),
          Cond("ISO", "$eq", LitV(Num(1)))}

LeafCriteria == {Leaf("Make", Str(S_a)), Leaf("ISO", Num(1))}

OrFlat == Or(<<Leaf("Make", Str(S_b)), Leaf("ISO", Num(2))>>)
AndFlat == And(<<Leaf("Make", Str(S_a)), Cond("ISO", "$gte", LitV(Num(1)))>>)
OrOfAnd == Or(<<And(<<Leaf("Make", Str(S_a)), Leaf("ISO", Num(1))>>),
                And(<<Leaf("Make", Str(S_b))>>)>>)
AndOfOr == And(<<Or(<<Leaf("Make", Str(S_a)), Leaf("ISO", Num(1))>>),
                 Or(<<Leaf("Make", Str(S_b)), Leaf("ISO", Num(2))>>)>>)

TreeCriteria == {OrFlat, AndFlat, OrOfAnd, AndOfOr}

\* the criteria of a first in-memory $match stage
MatchCriteria == LeafCriteria \cup OpCriteria \cup TreeCriteria

\* the criteria of a $match stage that follows another one
ChainCriteria ==
    LeafCriteria \cup {OrFlat, AndFlat, Cond("ISO", "$gte", LitV(Num(1)))}

---------------------------------------------------------------------------
(* SpecMatch: in-memory $match stages over a document sequence *)

InitMatch ==
    /\ initial_docs \in DocSeqs(MaxDocs)
    /\ device = NoDevice
    /\ local = NoLocal
    /\ scan = NoScan
    /\ caller = NoCaller
    /\ threads = NoThreads
    /\ disk = NoDisk
    /\ prev_docs = initial_docs
    /\ current_docs = initial_docs
    /\ trail = <<>>
    /\ raised = FALSE
    /\ store = <<>>
    /\ call = NoCall
    /\ ret = NoRet
    /\ cache = NoCache

\* one turn of the stage loop of aggregate on a $match stage:
\* current_docs = self._stage_match(current_docs, stage["$match"])
StageMatch(criteria) ==
    /\ ~raised
    /\ Len(trail) < MaxStages
    /\ LET r == _stage_match(current_docs, criteria)
       IN /\ raised' = r.err
          /\ current_docs' = IF r.err THEN current_docs ELSE r.docs
    /\ prev_docs' = current_docs
    /\ trail' = Append(trail, criteria)
    /\ UNCHANGED <<initial_docs, store, call, ret, cache, disk, threads, caller, scan, local, device>>

NextMatch ==
    \/ \E criteria \in MatchCriteria : trail = <<>> /\ StageMatch(criteria)
    \/ \E criteria \in ChainCriteria : trail # <<>> /\ StageMatch(criteria)

SpecMatch == InitMatch /\ [][NextMatch]_vars

---------------------------------------------------------------------------
(* Properties of the in-memory $match stage (SpecMatch) *)

\* a criteria that is one operator condition {field: {op: operand}}
IsOpCond(c) == Len(c) = 1 /\ c[1].e.kind = "dict" /\ Len(c[1].e.ops) = 1
CondField(c) == c[1].k
CondOp(c) == c[1].e.ops[1].op
CondVal(c) == c[1].e.ops[1].val

\* the operand is not null and holds no null
NonNull(val) ==
    IF val.kind = "lit" THEN val.lit # None ELSE None \notin Range(val.items)

\* the documents of a sequence that lack a field
Lacking(docs, field) == {d \in Range(docs) : field \notin DOMAIN d}

RECURSIVE TreeTrue(_, _)
\* the recursive reading of a filter tree: $and iff all members are true,
\* $or iff some member is true, a leaf iff its condition holds
TreeTrue(doc, expr) ==
    \A i \in 1..Len(expr) :
        IF expr[i].k = "$and"
        THEN \A j \in 1..Len(expr[i].e.subs) : TreeTrue(doc, expr[i].e.subs[j])
        ELSE IF expr[i].k = "$or"
        THEN \E j \in 1..Len(expr[i].e.subs) : TreeTrue(doc, expr[i].e.subs[j])
        ELSE _check_condition(doc, <<expr[i]>>) = "T"

\* C1: Match(F1) followed by Match(F2) yields the same documents, in the
\* same order, as the single Match({"$and": [F1, F2]}) over the same input.
C1_MatchTwiceIsMatchAnd ==
    (Len(trail) = 2 /\ ~raised) =>
        LET single == _stage_match(initial_docs, And(<<trail[1], trail[2]>>))
        IN ~single.err /\ single.docs = current_docs

\* C2: a condition whose operator is outside the defined set evaluates to
\* false without raising, so the Match keeps no document.
C2_UnknownOperatorFailsClosed ==
    (Len(trail) = 1 /\ IsOpCond(trail[1]) /\ CondOp(trail[1]) \notin KnownOps) =>
        (~raised /\ current_docs = <<>>)

\* C4: Match keeps a document iff the filter tree is true of it under the
\* recursive reading, whatever the nesting of $and and $or.
C4_MatchIsRecursiveReading ==
    (Len(trail) = 1 /\ ~raised) =>
        \A i \in 1..Len(initial_docs) :
            (initial_docs[i] \in Range(current_docs)) <=> TreeTrue(initial_docs[i], trail[1])

\* what C5 says of one Match by an operator condition: it does not raise
\* when every document lacks the field, and it keeps a document that lacks
\* the field iff the operator is $ne or $nin
MissingFieldRule(c) ==
    /\ (Range(initial_docs) \subseteq Lacking(initial_docs, CondField(c))) => ~raised
    /\ ~raised =>
          \A d \in Lacking(initial_docs, CondField(c)) :
              (d \in Range(current_docs)) <=> (CondOp(c) \in {"$ne", "$nin"})

---------------------------------------------------------------------------
(* list.sort and the $sort stage *)

S_desc == <<100, 101, 115, 99>>

\* the keys of one sort hold both numbers and strings: comparing such a pair
\* raises TypeError, and every sort of two or more items whose keys are of
\* both kinds compares such a pair
MixedKeys(keys) == \E i, j \in 1..Len(keys) : keys[i].t # keys[j].t

RECURSIVE InsertByKey(_, _, _, _)
\* insert index x into the sorted index list, after every index whose key
\* is not greater (equal keys keep their order of arrival)
InsertByKey(sorted, x, keys, i) ==
    IF i > Len(sorted) THEN Append(sorted, x)
    ELSE IF PyLess(keys[x], keys[sorted[i]]) = "T"
         THEN SubSeq(sorted, 1, i - 1) \o <<x>> \o SubSeq(sorted, i, Len(sorted))
         ELSE InsertByKey(sorted, x, keys, i + 1)

RECURSIVE SortIndices(_, _, _, _)
\* stable ascending sort of order[i..] by key
SortIndices(order, keys, i, sorted) ==
    IF i > Len(order) THEN sorted
    ELSE SortIndices(order, keys, i + 1, InsertByKey(sorted, order[i], keys, 1))

\* list.sort with reverse=True the way a sort-then-reverse would do it
SortOrder_ReverseAfter(keys, reverse) ==
    LET n == Len(keys)
        sorted == SortIndices([i \in 1..n |-> i], keys, 1, <<>>)
    IN IF reverse THEN Reverse(sorted) ELSE sorted

\* the order list.sort leaves the items in: a stable sort by key;
\* reverse=True reverses the list, sorts it, and reverses it again, so
\* equal keys keep their original order in both directions
SortOrder(keys, reverse) ==
    LET n == Len(keys)
        ident == [i \in 1..n |-> i]
    IN IF reverse THEN Reverse(SortIndices(Reverse(ident), keys, 1, <<>>))
       ELSE SortIndices(ident, keys, 1, <<>>)

\* items.sort(key=..., reverse=...), keys[i] being the key of items[i]
ListSort(items, keys, reverse) ==
    IF MixedKeys(keys) THEN [err |-> TRUE, docs |-> <<>>]
    ELSE LET order == SortOrder(keys, reverse)
         IN [err |-> FALSE, docs |-> [i \in 1..Len(items) |-> items[order[i]]]]

\* key=lambda x: x.get(k) if x.get(k) is not None else ""
StageSortKey(doc, k) == IF Get(doc, k) = None THEN Str(<<>>) ELSE Get(doc, k)

\* reverse = (direction == -1 or direction == "desc")
IsReverse(direction) == direction = Num(-1) \/ direction = Str(S_desc)

\* one docs.sort(...) pass of _stage_sort
SortPass(docs, pair) ==
    ListSort(docs, [i \in 1..Len(docs) |-> StageSortKey(docs[i], pair.k)],
             IsReverse(pair.dir))

RECURSIVE SortPassesForward(_, _, _)
\* the passes taken in the order of the spec
SortPassesForward(docs, sort_keys, i) ==
    IF i > Len(sort_keys) THEN [err |-> FALSE, docs |-> docs]
    ELSE LET r == SortPass(docs, sort_keys[i])
         IN IF r.err THEN r ELSE SortPassesForward(r.docs, sort_keys, i + 1)

RECURSIVE SortPassesReversed(_, _, _)
\* for k, direction in reversed(sort_keys): docs.sort(...)
SortPassesReversed(docs, sort_keys, i) ==
    IF i < 1 THEN [err |-> FALSE, docs |-> docs]
    ELSE LET r == SortPass(docs, sort_keys[i])
         IN IF r.err THEN r ELSE SortPassesReversed(r.docs, sort_keys, i - 1)

\* _stage_sort with the passes taken first key first
_stage_sort_Forward(docs, spec) == SortPassesForward(docs, spec, 1)

\* Database._stage_sort; spec is the sequence of the [k, dir] items of the
\* spec dict, in dict order
_stage_sort(docs, spec) == SortPassesReversed(docs, spec, Len(spec))

---------------------------------------------------------------------------
(* SpecSort: in-memory $sort stages over a document sequence *)

SortFields == {"Make", "ISO"}
Directions == {Num(1), Num(-1)}

OneKeySpecs ==
    {<<[k |-> f, dir |-> d]>> : f \in SortFields, d \in Directions}
    \cup {<<[k |-> "Make", dir |-> Str(S_desc)]>>}

TwoKeySpecs ==
    {<<[k |-> f, dir |-> d], [k |-> g, dir |-> e]>> :
        f \in SortFields, g \in SortFields, d \in Directions, e \in Directions} \
    {<<[k |-> f, dir |-> d], [k |-> f, dir |-> e]>> :
        f \in SortFields, d \in Directions, e \in Directions}

SortSpecs == OneKeySpecs \cup TwoKeySpecs

\* the specs of a $sort stage that follows another one, besides a repeat
ChainSortSpecs == {<<[k |-> "Make", dir |-> Num(1)]>>, <<[k |-> "ISO", dir |-> Num(-1)]>>}

\* the longest document sequence given to a $sort stage
MaxSortDocs == 3

InitSort ==
    /\ initial_docs \in DocSeqs(MaxSortDocs)
    /\ device = NoDevice
    /\ local = NoLocal
    /\ scan = NoScan
    /\ caller = NoCaller
    /\ threads = NoThreads
    /\ disk = NoDisk
    /\ prev_docs = initial_docs
    /\ current_docs = initial_docs
    /\ trail = <<>>
    /\ raised = FALSE
    /\ store = <<>>
    /\ call = NoCall
    /\ ret = NoRet
    /\ cache = NoCache

\* one turn of the stage loop of aggregate on a $sort stage:
\* current_docs = self._stage_sort(current_docs, stage["$sort"])
StageSort(spec) ==
    /\ ~raised
    /\ Len(trail) < MaxStages
    /\ LET r == _stage_sort(current_docs, spec)
       IN /\ raised' = r.err
          /\ current_docs' = IF r.err THEN current_docs ELSE r.docs
    /\ prev_docs' = current_docs
    /\ trail' = Append(trail, spec)
    /\ UNCHANGED <<initial_docs, store, call, ret, cache, disk, threads, caller, scan, local, device>>

NextSort ==
    \/ \E spec \in SortSpecs : trail = <<>> /\ StageSort(spec)
    \/ \E spec \in ChainSortSpecs \cup (IF trail = <<>> THEN {} ELSE {trail[Len(trail)]}) :
          trail # <<>> /\ StageSort(spec)

SpecSort == InitSort /\ [][NextSort]_vars

---------------------------------------------------------------------------
(* Properties of the $sort stage (SpecSort) *)

\* the argument of the last stage applied
LastStage == trail[Len(trail)]

\* the position of a document in a sequence of distinct documents
PosIn(docs, d) == CHOOSE i \in 1..Len(docs) : docs[i] = d

RECURSIVE InOrder(_, _, _, _)
\* x before y agrees with the order by pairs[i], ties broken by pairs[i+1],
\* and so on
InOrder(x, y, pairs, i) ==
    IF i > Len(pairs) THEN TRUE
    ELSE LET a == StageSortKey(x, pairs[i].k)
             b == StageSortKey(y, pairs[i].k)
         IN IF a = b THEN InOrder(x, y, pairs, i + 1)
            ELSE IF IsReverse(pairs[i].dir) THEN PyLess(b, a) = "T"
            ELSE PyLess(a, b) = "T"

C8_StableAndIdempotent ==
    (trail # <<>> /\ ~raised /\ Len(LastStage) = 1) =>
        /\ Len(current_docs) = Len(prev_docs)
        /\ Range(current_docs) = Range(prev_docs)
        /\ \A i, j \in 1..Len(current_docs) :
              (/\ i < j
               /\ StageSortKey(current_docs[i], LastStage[1].k)
                     = StageSortKey(current_docs[j], LastStage[1].k)) =>
                  PosIn(prev_docs, current_docs[i]) < PosIn(prev_docs, current_docs[j])
        /\ (Len(trail) >= 2 /\ trail[Len(trail) - 1] = LastStage) =>
              current_docs = prev_docs

\* a descending one-field sort reordered its input, which held two documents
\* with equal keys, and was then applied again
C8_Witness ==
    /\ Len(trail) = 2
    /\ ~raised
    /\ trail[1] = trail[2]
    /\ Len(LastStage) = 1
    /\ IsReverse(LastStage[1].dir)
    /\ initial_docs # current_docs
    /\ \E i, j \in 1..Len(current_docs) :
          /\ i < j
          /\ StageSortKey(current_docs[i], LastStage[1].k)
                = StageSortKey(current_docs[j], LastStage[1].k)

RECURSIVE Digits(_)
\* str(n) of a natural number
Digits(n) == IF n < 10 THEN <<48 + n>> ELSE Append(Digits(n \div 10), 48 + (n % 10))

\* the order C9 describes: a missing value is lowest, two numbers compare
\* numerically, any other pair by string representation
ClaimedLessEq(a, b) ==
    IF a = None THEN TRUE
    ELSE IF b = None THEN FALSE
    ELSE IF a.t = "num" /\ b.t = "num" THEN a.n * b.d <= b.n * a.d
    ELSE LET x == IF a.t = "num" THEN Digits(a.n) ELSE a.s
             y == IF b.t = "num" THEN Digits(b.n) ELSE b.s
         IN ~LexLess(y, x)

\* C9: an ascending Sort by one field completes for every document sequence
\* and leaves the documents in the described order (missing first, numbers
\* numerically, other pairs by string representation).
C9_SortCompletesInClaimedOrder ==
    (trail # <<>> /\ Len(LastStage) = 1 /\ ~IsReverse(LastStage[1].dir)) =>
        /\ ~raised
        /\ \A i, j \in 1..Len(current_docs) :
              i < j => ClaimedLessEq(Get(current_docs[i], LastStage[1].k),
                                     Get(current_docs[j], LastStage[1].k))

---------------------------------------------------------------------------
(* The collection.  The store is chromadb, outside this repository; what   *)
(* follows is the contract its callers rely on: get returns the documents  *)
(* that satisfy the where filter, in insertion order; query returns the    *)
(* n_results nearest of them, nearest first, each with its distance.       *)

\* True for every Python value but None, 0 and "" (if query_text: ...)
Truthy(v) == v # None /\ v # Num(0) /\ v # Str(<<>>)

\* one condition of a where filter as the store evaluates it: typed
\* comparison, never an exception
StoreCond(doc, key, e) ==
    LET actual == Get(doc, key)
    IN IF e.kind = "lit" THEN actual = e.lit
       ELSE IF e.kind = "dict" THEN
           \A j \in 1..Len(e.ops) :
               LET op == e.ops[j].op
                   val == e.ops[j].val
               IN IF op \in OrderOps THEN actual # None /\ Ordered(op, actual, val) = "T"
                  ELSE IF op = "$eq" THEN EqualsOperand(actual, val)
                  ELSE IF op = "$ne" THEN ~EqualsOperand(actual, val)
                  ELSE IF op = "$in" THEN Contained(actual, val) = "T"
                  ELSE IF op = "$nin" THEN Contained(actual, val) = "F"
                  ELSE FALSE
       ELSE FALSE

RECURSIVE StoreWhere(_, _)
\* a where filter as the store evaluates it: the recursive reading of the
\* tree; None (no filter) and the empty filter keep every document.  The
\* filters sent to the store hold one key at each level.
StoreWhere(doc, where) ==
    \A i \in 1..Len(where) :
        IF where[i].k = "$and"
        THEN \A j \in 1..Len(where[i].e.subs) : StoreWhere(doc, where[i].e.subs[j])
        ELSE IF where[i].k = "$or"
        THEN \E j \in 1..Len(where[i].e.subs) : StoreWhere(doc, where[i].e.subs[j])
        ELSE StoreCond(doc, where[i].k, where[i].e)

\* where=None
NoWhere == <<>>

RECURSIVE Keep(_, _, _)
\* the documents of a sequence that satisfy the filter, in order
Keep(docs, where, i) ==
    IF i > Len(docs) THEN <<>>
    ELSE (IF StoreWhere(docs[i], where) THEN <<docs[i]>> ELSE <<>>)
         \o Keep(docs, where, i + 1)

\* the slice as it would be if it took the element at position b as well
Slice_ThroughEnd(docs, a, b) ==
    LET hi == IF b + 1 < Len(docs) THEN b + 1 ELSE Len(docs)
    IN IF a >= hi THEN <<>> ELSE SubSeq(docs, a + 1, hi)

\* docs[a:b], a and b not negative
Slice(docs, a, b) ==
    LET hi == IF b < Len(docs) THEN b ELSE Len(docs)
    IN IF a >= hi THEN <<>> ELSE SubSeq(docs, a + 1, hi)

\* collection.get(where=..., limit=..., offset=...) followed by the loop
\* that copies each metadata and sets its SourceFile
StoreGet(coll, where, limit, offset) ==
    Slice(Keep(coll, where, 1), offset, offset + limit)

\* collection.get(where=...): no limit
StoreGetAll(coll, where) == Keep(coll, where, 1)

\* collection.query(query_texts=[q], where=..., n_results=n) followed by the
\* loop that copies each metadata and sets SourceFile and score;
\* rank lists the positions of the collection nearest first, and the
\* distance is modelled by the place in that ranking
StoreQuery(coll, rank, where, n) ==
    LET ranked == [i \in 1..Len(coll) |-> [score |-> Num(i)] @@ coll[rank[i]]]
    IN Slice(Keep(ranked, where, 1), 0, n)

\* the rankings a query text can induce on a collection
Rankings(coll) ==
    {r \in [1..Len(coll) -> 1..Len(coll)] : \A i, j \in 1..Len(coll) : i # j => r[i] # r[j]}

\* clean_meta of upsert_files: a value that is not str, int, float or bool
\* is stored as its str()
S_None == <<78, 111, 110, 101>>
CleanMeta(meta) == [k \in DOMAIN meta |-> IF meta[k] = None THEN Str(S_None) ELSE meta[k]]

\* collection.upsert of one document: replace the document of that id in
\* place, or append
UpsertOne(coll, meta) ==
    IF \E i \in 1..Len(coll) : coll[i].SourceFile = meta.SourceFile
    THEN [i \in 1..Len(coll) |->
             IF coll[i].SourceFile = meta.SourceFile THEN CleanMeta(meta) ELSE coll[i]]
    ELSE Append(coll, CleanMeta(meta))

RECURSIVE UpsertAll(_, _, _)
\* Database.upsert_files: every meta that has a SourceFile is upserted
UpsertAll(coll, metadata_list, i) ==
    IF i > Len(metadata_list) THEN coll
    ELSE UpsertAll(IF Truthy(Get(metadata_list[i], "SourceFile"))
                   THEN UpsertOne(coll, metadata_list[i]) ELSE coll,
                   metadata_list, i + 1)

---------------------------------------------------------------------------
(* Field references and numeric coercion *)

\* the text of the field names, for references such as "$Make"
Codes ==
    [Make |-> <<77, 97, 107, 101>>,
     ISO |-> <<73, 83, 79>>,
     Model |-> <<77, 111, 100, 101, 108>>,
     SourceFile |-> <<83, 111, 117, 114, 99, 101, 70, 105, 108, 101>>,
     score |-> <<115, 99, 111, 114, 101>>,
     _id |-> <<95, 105, 100>>,
     n |-> <<110>>]
    @@ ("EXIF:ISO" :> <<69, 88, 73, 70, 58, 73, 83, 79>>)
    @@ ("EXIF:Model" :> <<69, 88, 73, 70, 58, 77, 111, 100, 101, 108>>)
    @@ ("IPTC:City" :> <<73, 80, 84, 67, 58, 67, 105, 116, 121>>)

\* the string "$field"
Ref(field) == Str(<<36>> \o Codes[field])

\* isinstance(v, str) and v.startswith("$")
IsRef(v) == v.t = "str" /\ v.s # <<>> /\ v.s[1] = 36

\* v[1:] as a field name; a name that no document has when it is none of
\* the names above
RefField(v) ==
    IF \E f \in DOMAIN Codes : Codes[f] = Tail(v.s)
    THEN CHOOSE f \in DOMAIN Codes : Codes[f] = Tail(v.s)
    ELSE "?"

IsDigits(s) == s # <<>> /\ \A i \in 1..Len(s) : s[i] \in 48..57

RECURSIVE ParseDigits(_)
ParseDigits(s) ==
    IF s = <<>> THEN 0 ELSE 10 * ParseDigits(SubSeq(s, 1, Len(s) - 1)) + (s[Len(s)] - 48)

\* float(val) as it would be if it took numbers only
Coercible_NumbersOnly(val) == val.t = "num"

\* float(val) succeeds: on a number and on a string that reads as a number
\* (strings of digits, among the strings modelled); ValueError or
\* TypeError otherwise
Coercible(val) == val.t = "num" \/ (val.t = "str" /\ IsDigits(val.s))

\* float(val), for a coercible val
ToFloat(val) == IF val.t = "num" THEN val ELSE Num(ParseDigits(val.s))

\* a + b on numbers
Plus(a, b) == Rat(a.n * b.d + b.n * a.d, a.d * b.d)

---------------------------------------------------------------------------
(* $project *)

\* v == 1 or v is True
IsInclude(v) == v = Num(1)

\* v == 0 or v is False
IsExclude(v) == v = Num(0)

\* spec.get(key) for a spec given as the sequence of its [k, v] items
SpecGet(spec, key) ==
    IF \E i \in 1..Len(spec) : spec[i].k = key
    THEN spec[CHOOSE i \in 1..Len(spec) : spec[i].k = key].v
    ELSE None

\* the projection of one document as it would be if inclusion mode kept
\* _id whatever the spec says of it
ProjectDoc_KeepsId(doc, spec) ==
    LET is_inclusion == \E i \in 1..Len(spec) : spec[i].k # "_id" /\ IsInclude(spec[i].v)
        kept == {k \in DOMAIN doc :
                    k = "_id" \/ \E i \in 1..Len(spec) : spec[i].k = k /\ IsInclude(spec[i].v)}
        dropped == {k \in DOMAIN doc :
                       \E i \in 1..Len(spec) : spec[i].k = k /\ IsExclude(spec[i].v)}
    IN IF is_inclusion THEN [k \in kept |-> doc[k]]
       ELSE [k \in DOMAIN doc \ dropped |-> doc[k]]

\* the body of the loop of _stage_project for one document
ProjectDoc(doc, spec) ==
    LET is_inclusion == \E i \in 1..Len(spec) : spec[i].k # "_id" /\ IsInclude(spec[i].v)
        kept == {k \in DOMAIN doc :
                    \/ k = "_id" /\ SpecGet(spec, "_id") # Num(0)
                    \/ \E i \in 1..Len(spec) : spec[i].k = k /\ IsInclude(spec[i].v)}
        dropped == {k \in DOMAIN doc :
                       \E i \in 1..Len(spec) : spec[i].k = k /\ IsExclude(spec[i].v)}
    IN IF is_inclusion THEN [k \in kept |-> doc[k]]
       ELSE [k \in DOMAIN doc \ dropped |-> doc[k]]

\* Database._stage_project; it raises nothing
_stage_project(docs, spec) ==
    [err |-> FALSE, docs |-> [i \in 1..Len(docs) |-> ProjectDoc(docs[i], spec)]]

---------------------------------------------------------------------------
(* $group.  A group spec is the sequence of its items [k, v, acc]: v is    *)
(* the value of the "_id" item, acc the accumulator dict of any other      *)
(* item as the sequence of its [op, val] items.  Group keys that are lists *)
(* (stringified by the code) do not arise from the inputs modelled.        *)

IdItem(v) == [k |-> "_id", v |-> v, acc |-> <<>>]
AccItem(field, op, val) == [k |-> field, v |-> None, acc |-> <<[op |-> op, val |-> val]>>]

\* the group key as it would be if a reference were not resolved
GroupKey_Unresolved(doc, id_expr) == id_expr

\* the group key of one document
GroupKey(doc, id_expr) ==
    IF Truthy(id_expr) /\ IsRef(id_expr) THEN Get(doc, RefField(id_expr)) ELSE id_expr

\* the keys as they would be if every document opened a group of its own key
GroupKeys_PerDocument(docs, id_expr, i, keys) ==
    [j \in 1..Len(docs) |-> GroupKey(docs[j], id_expr)]

RECURSIVE GroupKeys(_, _, _, _)
\* the keys of groups, in the order of their first document
GroupKeys(docs, id_expr, i, keys) ==
    IF i > Len(docs) THEN keys
    ELSE LET key == GroupKey(docs[i], id_expr)
         IN GroupKeys(docs, id_expr, i + 1,
                      IF key \in Range(keys) THEN keys ELSE Append(keys, key))

RECURSIVE GroupDocs(_, _, _, _)
\* groups[key]: the documents of one key, in input order
GroupDocs(docs, id_expr, key, i) ==
    IF i > Len(docs) THEN <<>>
    ELSE (IF GroupKey(docs[i], id_expr) = key THEN <<docs[i]>> ELSE <<>>)
         \o GroupDocs(docs, id_expr, key, i + 1)

RECURSIVE Floats(_, _, _)
\* the values float() accepts among d.get(target_field), as floats
Floats(group_docs, field, i) ==
    IF i > Len(group_docs) THEN <<>>
    ELSE LET val == Get(group_docs[i], field)
         IN (IF Coercible(val) THEN <<ToFloat(val)>> ELSE <<>>)
            \o Floats(group_docs, field, i + 1)

RECURSIVE Total(_, _)
\* sum(values), from 0
Total(values, i) == IF i > Len(values) THEN Num(0) ELSE Plus(values[i], Total(values, i + 1))

\* min(values) of a non-empty list of numbers
Least(values) ==
    values[CHOOSE i \in 1..Len(values) :
               \A j \in 1..Len(values) : PyLess(values[j], values[i]) # "T"]

\* max(values) of a non-empty list of numbers
Greatest(values) ==
    values[CHOOSE i \in 1..Len(values) :
               \A j \in 1..Len(values) : PyLess(values[i], values[j]) # "T"]

\* one branch of the accumulator chain: what result_doc[field] is after it,
\* given what it was before (unset: no assignment was made yet)
Accumulate(group_docs, op, val, before) ==
    LET field == RefField(val)
        values == Floats(group_docs, field, 1)
        set(v) == [unset |-> FALSE, v |-> v]
    IN IF op = "$sum" THEN
           IF val = Num(1) THEN set(Num(Len(group_docs)))
           ELSE IF IsRef(val) THEN set(Total(values, 1))
           ELSE before
       ELSE IF ~IsRef(val) THEN before
       ELSE IF op = "$avg" THEN
           set(IF values # <<>> THEN Rat(Total(values, 1).n * 1, Total(values, 1).d * Len(values))
               ELSE Num(0))
       ELSE IF op = "$min" THEN set(IF values # <<>> THEN Least(values) ELSE None)
       ELSE IF op = "$max" THEN set(IF values # <<>> THEN Greatest(values) ELSE None)
       ELSE IF op = "$push" THEN
           set(List([i \in 1..Len(group_docs) |-> Get(group_docs[i], field)]))
       ELSE IF op = "$first" THEN set(Get(group_docs[1], field))
       ELSE before

RECURSIVE AccumulateAll(_, _, _, _)
\* for op, op_val in accumulator.items()
AccumulateAll(group_docs, acc, j, before) ==
    IF j > Len(acc) THEN before
    ELSE AccumulateAll(group_docs, acc, j + 1,
                       Accumulate(group_docs, acc[j].op, acc[j].val, before))

\* result_doc of one group
ResultDoc(key, group_docs, spec) ==
    LET out(i) == AccumulateAll(group_docs, spec[i].acc, 1, [unset |-> TRUE, v |-> None])
        fields == {spec[i].k : i \in {j \in 1..Len(spec) : spec[j].k # "_id" /\ ~out(j).unset}}
    IN [f \in fields \cup {"_id"} |->
           IF f = "_id" THEN key
           ELSE out(CHOOSE i \in 1..Len(spec) : spec[i].k = f).v]

\* Database._stage_group; it raises nothing on the specs modelled
_stage_group(docs, spec) ==
    LET id_expr == SpecGet(spec, "_id")
        keys == GroupKeys(docs, id_expr, 1, <<>>)
    IN [err |-> FALSE,
        docs |-> [g \in 1..Len(keys) |->
                     ResultDoc(keys[g], GroupDocs(docs, id_expr, keys[g], 1), spec)]]

---------------------------------------------------------------------------
(* Database.aggregate.  A stage {key: val} is the record [key, val]; val   *)
(* is the criteria of $match, the spec of $group, $sort or $project, the   *)
(* number of $limit or $skip, the field name of $count.                    *)

Stage(key, val) == [key |-> key, val |-> val]

\* n_results of the semantic retrieval of aggregate
AggregateFetch == 2000

\* fetch_limit of a semantic advanced_query that sorts
SortFetch == 2000

\* match_criteria.pop("query", None): the popped value
PopQuery(criteria) ==
    IF \E i \in 1..Len(criteria) : criteria[i].k = "query"
    THEN criteria[CHOOSE i \in 1..Len(criteria) : criteria[i].k = "query"].e.lit
    ELSE None

\* match_criteria after the pop
WithoutQuery(criteria) ==
    LET idx == {i \in 1..Len(criteria) : criteria[i].k # "query"}
        nth(n) == CHOOSE i \in idx : Cardinality({j \in idx : j < i}) = n - 1
    IN [n \in 1..Cardinality(idx) |-> criteria[nth(n)]]

\* the retrieval as it would be if a first $match stayed in the pipeline
InitialDocs_KeepsMatch(coll, rank, pipeline) ==
    IF pipeline[1].key = "$match" THEN
        [docs |-> IF Truthy(PopQuery(pipeline[1].val))
                  THEN StoreQuery(coll, rank, WithoutQuery(pipeline[1].val), AggregateFetch)
                  ELSE StoreGetAll(coll, WithoutQuery(pipeline[1].val)),
         rest |-> pipeline]
    ELSE [docs |-> StoreGetAll(coll, NoWhere), rest |-> pipeline]

\* the retrieval that opens aggregate: initial_docs and the stages left
InitialDocs(coll, rank, pipeline) ==
    IF pipeline[1].key = "$match" THEN
        LET match_criteria == pipeline[1].val
            query_text == PopQuery(match_criteria)
            where == WithoutQuery(match_criteria)
        IN [docs |-> IF Truthy(query_text)
                     THEN StoreQuery(coll, rank, where, AggregateFetch)
                     ELSE StoreGetAll(coll, where),
            rest |-> Tail(pipeline)]
    ELSE [docs |-> StoreGetAll(coll, NoWhere), rest |-> pipeline]

\* one turn of the stage loop: the if/elif chain, which has no else
RunStage(docs, stage) ==
    IF stage.key = "$match" THEN _stage_match(docs, stage.val)
    ELSE IF stage.key = "$group" THEN _stage_group(docs, stage.val)
    ELSE IF stage.key = "$sort" THEN _stage_sort(docs, stage.val)
    ELSE IF stage.key = "$project" THEN _stage_project(docs, stage.val)
    ELSE IF stage.key = "$limit" THEN [err |-> FALSE, docs |-> Slice(docs, 0, stage.val)]
    ELSE IF stage.key = "$skip" THEN [err |-> FALSE, docs |-> Slice(docs, stage.val, Len(docs))]
    ELSE IF stage.key = "$count"
    THEN [err |-> FALSE, docs |-> <<[c \in {stage.val} |-> Num(Len(docs))]>>]
    ELSE [err |-> FALSE, docs |-> docs]

RECURSIVE RunStages(_, _, _)
RECURSIVE NextStage(_, _, _)
\* for stage in pipeline
RunStages(docs, pipeline, i) ==
    IF i > Len(pipeline) THEN [err |-> FALSE, docs |-> docs]
    ELSE NextStage(RunStage(docs, pipeline[i]), pipeline, i)

\* after stage i gave r: its exception ends the loop, its documents go to
\* the next stage
NextStage(r, pipeline, i) ==
    IF r.err THEN [err |-> TRUE, docs |-> <<>>]
    ELSE RunStages(r.docs, pipeline, i + 1)

\* the stage loop over the retrieval "first", and the return statement; one
\* retrieval was made from the store
StagesAfter(first) == RunStages(first.docs, first.rest, 1)
Returned(r) == [raised |-> r.err, docs |-> r.docs, reads |-> 1]

\* aggregate as it would be if an empty pipeline passed the collection on
aggregate_Passthrough(coll, rank, pipeline) ==
    IF pipeline = <<>>
    THEN [raised |-> FALSE, docs |-> StoreGetAll(coll, NoWhere), reads |-> 1]
    ELSE Returned(StagesAfter(InitialDocs(coll, rank, pipeline)))

\* Database.aggregate: what it returns or that it raised, and the number of
\* retrievals it made from the store
aggregate(coll, rank, pipeline) ==
    IF pipeline = <<>> THEN [raised |-> FALSE, docs |-> <<>>, reads |-> 0]
    ELSE Returned(StagesAfter(InitialDocs(coll, rank, pipeline)))

\* the try/except of run_aggregation_pipeline around r = db.aggregate(...)
PipelineReply(r) ==
    IF r.raised
    THEN [raised |-> FALSE, docs |-> <<>>, text |-> "Error executing pipeline", reads |-> r.reads]
    ELSE [raised |-> FALSE, docs |-> r.docs, text |-> "results", reads |-> r.reads]

\* server.run_aggregation_pipeline on the text of an input
\* [json, list, pipeline]: json says that the text parses, list that it
\* parses to a list
run_aggregation_pipeline(coll, rank, input) ==
    IF ~input.json
    THEN [raised |-> FALSE, docs |-> <<>>, text |-> "Error: Pipeline must be a valid JSON string.", reads |-> 0]
    ELSE IF ~input.list
    THEN [raised |-> FALSE, docs |-> <<>>, text |-> "Error: Pipeline must be a list of stages.", reads |-> 0]
    ELSE PipelineReply(aggregate(coll, rank, input.pipeline))

---------------------------------------------------------------------------
(* Database.advanced_query.  sort_by "" stands for no sort_by, projection  *)
(* <<>> for no projection, where <<>> for no filter: the code only tests   *)
(* their truth.                                                            *)

\* sort_order.lower() on the spellings modelled
Lower(sort_order) == IF sort_order = "DESC" THEN "desc" ELSE sort_order

\* get_sort_key of advanced_query
QuerySortKey(doc, sort_by) ==
    LET val == Get(doc, sort_by)
    IN IF Coercible(val) THEN ToFloat(val)
       ELSE IF val = None THEN Str(<<>>)
       ELSE val

\* a projection that copies the listed fields only
ProjectItem_ListedOnly(item, projection) ==
    [k \in Range(projection) \cap DOMAIN item |-> item[k]]

\* step 3: the projection of one item
ProjectItem(item, projection) ==
    [k \in ({"SourceFile"} \cup Range(projection)) \cap DOMAIN item |-> item[k]]

\* step 1: the retrieval
QueryFetch(coll, rank, query, where, sort_by, limit, offset) ==
    IF Truthy(query)
    THEN StoreQuery(coll, rank, where, IF sort_by # "" THEN SortFetch ELSE limit + offset)
    ELSE IF sort_by # "" THEN StoreGetAll(coll, where)
    ELSE StoreGet(coll, where, limit, offset)

\* step 2: items.sort(key=get_sort_key, reverse=reverse)
QuerySort(items, sort_by, sort_order) ==
    ListSort(items, [i \in 1..Len(items) |-> QuerySortKey(items[i], sort_by)],
             Lower(sort_order) = "desc")

\* step 3 and the return statement
Projected(items, projection) ==
    [raised |-> FALSE,
     docs |-> IF projection # <<>>
              THEN [i \in 1..Len(items) |-> ProjectItem(items[i], projection)]
              ELSE items,
     reads |-> 1]

\* the slice that follows the sort, unless the sort raised
SortedPage(sorted, limit, offset, projection) ==
    IF sorted.err THEN [raised |-> TRUE, docs |-> <<>>, reads |-> 1]
    ELSE Projected(Slice(sorted.docs, offset, offset + limit), projection)

\* steps 2 and 3 on the items retrieved
QueryPage(items, sort_by, sort_order, limit, offset, projection) ==
    IF sort_by # ""
    THEN SortedPage(QuerySort(items, sort_by, sort_order), limit, offset, projection)
    ELSE Projected(items, projection)

advanced_query(coll, rank, query, where, sort_by, sort_order, limit, offset, projection) ==
    QueryPage(QueryFetch(coll, rank, query, where, sort_by, limit, offset),
              sort_by, sort_order, limit, offset, projection)

\* the try/except of run_advanced_query around r = db.advanced_query(...)
QueryReply(r) ==
    IF r.raised
    THEN [raised |-> FALSE, docs |-> <<>>, text |-> "Error executing query", reads |-> r.reads]
    ELSE [raised |-> FALSE, docs |-> r.docs, text |-> "results", reads |-> r.reads]

\* server.run_advanced_query on the text of an input [json, dict, data]
QueryOf(coll, rank, d) ==
    advanced_query(coll, rank, d.query, d.where, d.sort_by, d.sort_order,
                   d.limit, d.offset, d.projection)

run_advanced_query(coll, rank, input) ==
    IF ~input.json
    THEN [raised |-> FALSE, docs |-> <<>>, text |-> "Error: Input must be a valid JSON string.", reads |-> 0]
    ELSE IF ~input.dict
    THEN [raised |-> FALSE, docs |-> <<>>, text |-> "Error: Input must be a JSON object.", reads |-> 0]
    ELSE QueryReply(QueryOf(coll, rank, input.data))

---------------------------------------------------------------------------
(* SpecQuery: the store and the two query handlers of the server *)

\* the most documents the store holds
MaxStore == 2

\* the largest limit and offset of an advanced query
MaxLimit == 2
MaxOffset == 1

S_q == <<113>>

QueryItem == [k |-> "query", e |-> LitE(Str(S_q))]

\* the query key with an empty text
EmptyQueryItem == [k |-> "query", e |-> LitE(Str(<<>>))]

MatchStages ==
    {Stage("$match", c) :
        c \in {Leaf("Make", Str(S_a)),
               Cond("ISO", "$gt", LitV(Num(1))),
               <<QueryItem>>,
               <<QueryItem>> \o Leaf("Make", Str(S_a)),
               <<EmptyQueryItem>>,
               <<>>}}

GroupStages ==
    {Stage("$group", <<IdItem(Ref("Make")), AccItem("n", op, val)>>) :
        op \in {"$sum"}, val \in {Num(1), Num(2), Ref("ISO")}}
    \cup {Stage("$group", <<IdItem(id), AccItem("n", op, Ref("ISO"))>>) :
             id \in {None, Ref("Make")}, op \in {"$avg", "$min", "$max", "$push", "$first"}}

SortStages ==
    {Stage("$sort", spec) :
        spec \in {<<[k |-> "ISO", dir |-> Num(1)]>>, <<[k |-> "Make", dir |-> Num(-1)]>>}}

ProjectStages ==
    {Stage("$project", spec) :
        spec \in {<<[k |-> "Make", v |-> Num(1)]>>,
                  <<[k |-> "ISO", v |-> Num(0)]>>,
                  <<[k |-> "Source", v |-> Ref("SourceFile")], [k |-> "Make", v |-> Num(1)]>>}}

PagingStages == {Stage("$limit", 1), Stage("$skip", 1)}

CountStages == {Stage("$count", "n")}

\* a stage whose key is none of the seven the code dispatches on
UnknownStages == {Stage("$unwind", "Make")}

Stages ==
    MatchStages \cup GroupStages \cup SortStages \cup ProjectStages
    \cup PagingStages \cup CountStages \cup UnknownStages

\* the longest pipeline
MaxPipeline == 2

Pipelines == UNION {[1..n -> Stages] : n \in 0..MaxPipeline}

PipelineInputs ==
    {[json |-> TRUE, list |-> TRUE, pipeline |-> p] : p \in Pipelines}
    \cup {[json |-> TRUE, list |-> FALSE, pipeline |-> <<>>],
          [json |-> FALSE, list |-> FALSE, pipeline |-> <<>>]}

QueryData ==
    [query : {None, Str(S_q)},
     where : {NoWhere, Leaf("Make", Str(S_a))},
     sort_by : {"", "ISO", "Make"},
     sort_order : {"asc", "desc", "DESC"},
     limit : 1..MaxLimit,
     offset : 0..MaxOffset,
     projection : {<<>>, <<"Make">>, <<"ISO", "score">>}]

NoData ==
    [query |-> None, where |-> NoWhere, sort_by |-> "", sort_order |-> "asc",
     limit |-> 1, offset |-> 0, projection |-> <<>>]

QueryInputs ==
    {[json |-> TRUE, dict |-> TRUE, data |-> d] : d \in QueryData}
    \cup {[json |-> TRUE, dict |-> FALSE, data |-> NoData],
          [json |-> FALSE, dict |-> FALSE, data |-> NoData]}

InitQuery ==
    /\ store = <<>>
    /\ device = NoDevice
    /\ local = NoLocal
    /\ scan = NoScan
    /\ caller = NoCaller
    /\ threads = NoThreads
    /\ disk = NoDisk
    /\ call = NoCall
    /\ ret = NoRet
    /\ cache = NoCache
    /\ initial_docs = <<>>
    /\ prev_docs = <<>>
    /\ current_docs = <<>>
    /\ trail = <<>>
    /\ raised = FALSE

\* db.upsert_files([meta]), between two tool calls
Upsert(meta) ==
    /\ call = NoCall
    /\ \/ Len(store) < MaxStore
       \/ \E i \in 1..Len(store) : store[i].SourceFile = meta.SourceFile
    /\ store' = UpsertAll(store, <<meta>>, 1)
    /\ UNCHANGED <<call, ret, initial_docs, prev_docs, current_docs, trail, raised, cache, disk, threads, caller, scan, local, device>>

\* the tool run_aggregation_pipeline, up to its return statement; rank is
\* the order of nearness the query text, if any, induces on the store
RunAggregationPipeline(input, rank) ==
    /\ call = NoCall
    /\ call' = [op |-> "run_aggregation_pipeline", input |-> input, rank |-> rank]
    /\ ret' = run_aggregation_pipeline(store, rank, input)
    /\ UNCHANGED <<store, initial_docs, prev_docs, current_docs, trail, raised, cache, disk, threads, caller, scan, local, device>>

\* the tool run_advanced_query, up to its return statement
RunAdvancedQuery(input, rank) ==
    /\ call = NoCall
    /\ call' = [op |-> "run_advanced_query", input |-> input, rank |-> rank]
    /\ ret' = run_advanced_query(store, rank, input)
    /\ UNCHANGED <<store, initial_docs, prev_docs, current_docs, trail, raised, cache, disk, threads, caller, scan, local, device>>

\* a return that empties the collection when the tool answered with an error
Return_ClearsOnError ==
    /\ call # NoCall
    /\ call' = NoCall
    /\ ret' = NoRet
    /\ store' = IF ret.text \in {"results", "none", "keys"} THEN store ELSE <<>>
    /\ UNCHANGED <<initial_docs, prev_docs, current_docs, trail, raised, cache, disk, threads, caller, scan, local, device>>

\* the return statement of a tool: the response leaves the server, which
\* takes the next call
Return ==
    /\ call # NoCall
    /\ call' = NoCall
    /\ ret' = NoRet
    /\ UNCHANGED <<store, initial_docs, prev_docs, current_docs, trail, raised, cache, disk, threads, caller, scan, local, device>>

NextQuery ==
    \/ \E meta \in DocPool : Upsert(meta)
    \/ \E input \in PipelineInputs, rank \in Rankings(store) :
           RunAggregationPipeline(input, rank)
    \/ \E input \in QueryInputs, rank \in Rankings(store) :
           RunAdvancedQuery(input, rank)
    \/ Return

SpecQuery == InitQuery /\ [][NextQuery]_vars

---------------------------------------------------------------------------
(* Properties of the query handlers *)

\* the stage keys the loop of aggregate dispatches on
KnownStages == {"$match", "$group", "$sort", "$project", "$limit", "$skip", "$count"}

HasUnknownStage(pipeline) == \E i \in 1..Len(pipeline) : pipeline[i].key \notin KnownStages

\* C3: a pipeline that holds a stage whose single key is none of the seven
\* stage keys is answered with an error, and no documents are returned.
C3_UnknownStageRejected ==
    (/\ call.op = "run_aggregation_pipeline"
     /\ call.input.list
     /\ HasUnknownStage(call.input.pipeline))
    => (ret.text # "results" /\ ret.docs = <<>>)

\* the field of the document holds a string where the literal is a number,
\* or a number where the literal is a string
TypesDiffer(doc, field, lit) ==
    /\ field \in DOMAIN doc
    /\ {doc[field].t, lit.t} = {"str", "num"}

\* C6: an in-memory $match with $gt, $gte, $lt or $lte over documents of
\* which one holds a value of another type than the literal does not raise.
C6_OrderedOpsTolerateTypes ==
    (/\ trail # <<>>
     /\ IsOpCond(trail[Len(trail)])
     /\ CondOp(trail[Len(trail)]) \in OrderOps
     /\ CondVal(trail[Len(trail)]).kind = "lit"
     /\ \E i \in 1..Len(prev_docs) :
            TypesDiffer(prev_docs[i], CondField(trail[Len(trail)]),
                        CondVal(trail[Len(trail)]).lit))
    => ~raised

\* the documents that match an advanced query, in the order of the mode:
\* the order of the store or of nearness, then the sort if one is asked
Matched(coll, rank, d) ==
    IF Truthy(d.query) THEN StoreQuery(coll, rank, d.where, Len(coll))
    ELSE StoreGetAll(coll, d.where)

MatchSequence(coll, rank, d) ==
    IF d.sort_by = "" THEN Matched(coll, rank, d)
    ELSE QuerySort(Matched(coll, rank, d), d.sort_by, d.sort_order).docs

\* the ids of the first offset documents of a sequence
Skipped(seq, offset) == {seq[i].SourceFile : i \in {j \in 1..Len(seq) : j <= offset}}

\* C10: advanced_query returns at most limit documents and none of the
\* first offset documents of the match sequence, in each of its four modes.
C10_AtMostLimitAfterOffset ==
    (call.op = "run_advanced_query" /\ ret.text = "results")
    => /\ Len(ret.docs) <= call.input.data.limit
       /\ \A i \in 1..Len(ret.docs) :
              ret.docs[i].SourceFile \notin
                  Skipped(MatchSequence(store, call.rank, call.input.data),
                          call.input.data.offset)

\* SourceFile of each document of a sequence
Ids(docs) == [i \in 1..Len(docs) |-> docs[i].SourceFile]

\* document a of the sequence comes before document b in the order by the
\* sort field: the smaller key first (the greater one when descending),
\* and the earlier document first among equal keys
ComesBefore(docs, a, b, sort_by, descending) ==
    \/ PyLess(QuerySortKey(docs[IF descending THEN b ELSE a], sort_by),
              QuerySortKey(docs[IF descending THEN a ELSE b], sort_by)) = "T"
    \/ /\ QuerySortKey(docs[a], sort_by) = QuerySortKey(docs[b], sort_by)
       /\ a < b

\* the sequence sorted by the field, given as the arrangement that puts
\* every pair in that order
SortedBy(docs, sort_by, descending) ==
    LET p == CHOOSE r \in Rankings(docs) :
                 \A i, j \in 1..Len(docs) :
                     i < j => ComesBefore(docs, r[i], r[j], sort_by, descending)
    IN [i \in 1..Len(docs) |-> docs[p[i]]]

\* an advanced query with a sort field and no semantic query
IsSortedExactQuery ==
    /\ call.op = "run_advanced_query"
    /\ call.input.dict
    /\ ~Truthy(call.input.data.query)
    /\ call.input.data.sort_by # ""

\* C11: an advanced query with a sort field and no semantic query returns
\* exactly the documents at positions offset .. offset+limit-1 of all the
\* documents that match the filter, sorted by the field, descending when the
\* direction is "desc" and ascending otherwise.
C11_SortedPageOfFullMatch ==
    IsSortedExactQuery
    => /\ ret.text = "results"
       /\ Ids(ret.docs) =
              Ids(Slice(SortedBy(StoreGetAll(store, call.input.data.where),
                                 call.input.data.sort_by,
                                 Lower(call.input.data.sort_order) = "desc"),
                        call.input.data.offset,
                        call.input.data.offset + call.input.data.limit))

\* the same, for the calls that return a result
C11_SortedPageWhenSortCompletes ==
    (IsSortedExactQuery /\ ret.text = "results")
    => Ids(ret.docs) =
           Ids(Slice(SortedBy(StoreGetAll(store, call.input.data.where),
                              call.input.data.sort_by,
                              Lower(call.input.data.sort_order) = "desc"),
                     call.input.data.offset,
                     call.input.data.offset + call.input.data.limit))

---------------------------------------------------------------------------
(* SpecStages: the in-memory stages $group, $project, $limit, $skip and    *)
(* $count of the stage loop, over a document sequence                      *)

\* the longest document sequence given to the stages
MaxStageDocs == 3

\* the largest number given to $limit and $skip
MaxPage == 3

GroupIds == {None, Str(S_a), Ref("Make"), Ref("ISO")}

\* accumulators {op: op_val}; "$count" is none of the operators of the code
Accumulators ==
    {[op |-> "$sum", val |-> v] : v \in {Num(1), Num(2), Ref("ISO"), Ref("Make")}}
    \cup {[op |-> o, val |-> v] : o \in {"$avg", "$min", "$max"}, v \in {Ref("ISO"), Ref("Make")}}
    \cup {[op |-> o, val |-> Ref("ISO")] : o \in {"$push", "$first"}}
    \cup {[op |-> "$avg", val |-> Num(1)], [op |-> "$count", val |-> Num(1)]}

GroupSpecs ==
    {<<IdItem(id), AccItem("n", a.op, a.val)>> : id \in GroupIds, a \in Accumulators}
    \cup {<<IdItem(Ref("Make")), AccItem("n", "$sum", Num(1)), AccItem("m", "$max", Ref("ISO"))>>,
          <<IdItem(Ref("Make")), AccItem("n", "$sum", Num(2)), AccItem("m", "$max", Ref("ISO"))>>}

\* project specs given to documents of the store
DocProjects ==
    {<<[k |-> "Make", v |-> Num(1)]>>,
     <<[k |-> "ISO", v |-> Num(0)]>>,
     <<[k |-> "SourceFile", v |-> Num(0)]>>,
     <<[k |-> "Make", v |-> Num(1)], [k |-> "Model", v |-> Num(1)]>>,
     <<[k |-> "Make", v |-> Num(1)], [k |-> "ISO", v |-> Num(0)]>>,
     <<[k |-> "Source", v |-> Ref("SourceFile")]>>,
     <<[k |-> "Source", v |-> Ref("SourceFile")], [k |-> "Make", v |-> Num(1)]>>}

\* project specs given to the output of a $group
GroupProjects ==
    {<<[k |-> "n", v |-> Num(1)]>>,
     <<[k |-> "n", v |-> Num(0)]>>,
     <<[k |-> "_id", v |-> Num(0)]>>,
     <<[k |-> "_id", v |-> Num(0)], [k |-> "n", v |-> Num(1)]>>,
     <<[k |-> "_id", v |-> Num(1)]>>,
     <<[k |-> "Model", v |-> Ref("_id")], [k |-> "n", v |-> Num(1)], [k |-> "_id", v |-> Num(0)]>>}

PageStages ==
    {Stage("$limit", n) : n \in 0..MaxPage} \cup {Stage("$skip", n) : n \in 0..MaxPage}

\* the pipelines of in-memory stages that are run
StagePipelines ==
    {<<Stage("$group", g)>> : g \in GroupSpecs}
    \cup {<<Stage("$group", g), Stage("$project", p)>> : g \in GroupSpecs, p \in GroupProjects}
    \cup {<<Stage("$project", p)>> : p \in DocProjects}
    \cup {<<a, b>> : a \in PageStages, b \in PageStages}
    \cup {<<Stage("$count", "n")>>}

InitStages ==
    /\ initial_docs \in DocSeqs(MaxStageDocs)
    /\ device = NoDevice
    /\ local = NoLocal
    /\ scan = NoScan
    /\ caller = NoCaller
    /\ threads = NoThreads
    /\ disk = NoDisk
    /\ prev_docs = initial_docs
    /\ current_docs = initial_docs
    /\ trail = <<>>
    /\ raised = FALSE
    /\ store = <<>>
    /\ call = NoCall
    /\ ret = NoRet
    /\ cache = NoCache

\* what one turn of the stage loop leaves in current_docs
AfterStage(r, docs) == IF r.err THEN docs ELSE r.docs

\* one turn of the stage loop: current_docs = the stage's output
RunNextStage(stage) ==
    /\ ~raised
    /\ raised' = RunStage(current_docs, stage).err
    /\ current_docs' = AfterStage(RunStage(current_docs, stage), current_docs)
    /\ prev_docs' = current_docs
    /\ trail' = Append(trail, stage)
    /\ UNCHANGED <<initial_docs, store, call, ret, cache, disk, threads, caller, scan, local, device>>

NextStages ==
    \E p \in StagePipelines :
        /\ Len(trail) < Len(p)
        /\ SubSeq(p, 1, Len(trail)) = trail
        /\ RunNextStage(p[Len(trail) + 1])

SpecStages == InitStages /\ [][NextStages]_vars

---------------------------------------------------------------------------
(* Properties of the stages *)

\* the stage that ran last
LastRun == trail[Len(trail)]

\* the last stage was a $group whose one accumulator is n: {"$sum": 1}
IsCountingGroup ==
    /\ trail # <<>>
    /\ LastRun.key = "$group"
    /\ Len(LastRun.val) = 2
    /\ LastRun.val[2] = AccItem("n", "$sum", Num(1))

RECURSIVE SumOfN(_, _)
\* the n of the documents of a sequence, added up
SumOfN(docs, i) == IF i > Len(docs) THEN 0 ELSE docs[i].n.n + SumOfN(docs, i + 1)

\* the n a $count stage reports over a sequence
CountOver(docs) == RunStage(docs, Stage("$count", "n")).docs[1].n.n

\* C12: over every sequence, the empty one included, and every group key,
\* the n of a {"$sum": 1} accumulator is the n of a $count stage: with
\* _id null the group reports that very n, with any key the n of the groups
\* add up to it.
C12_GroupCountIsCount ==
    IsCountingGroup
    => /\ SumOfN(current_docs, 1) = CountOver(prev_docs)
       /\ LastRun.val[1].v = None
          => /\ Len(current_docs) = 1
             /\ current_docs[1].n.n = CountOver(prev_docs)

\* C12 (amended): the n of the groups add up to the n of $count over every
\* sequence and key; over a sequence that is not empty, the group of
\* _id null is one document that reports that n; over the empty sequence
\* $group outputs no document, $count outputs n = 0.
C12_GroupCountsAddUp ==
    IsCountingGroup
    => /\ SumOfN(current_docs, 1) = CountOver(prev_docs)
       /\ (LastRun.val[1].v = None /\ prev_docs # <<>>)
          => /\ Len(current_docs) = 1
             /\ current_docs[1].n.n = CountOver(prev_docs)
       /\ prev_docs = <<>> => current_docs = <<>>

\* a counting group by a field ran over documents of which two share a key
C12_Witness ==
    /\ IsCountingGroup
    /\ LastRun.val[1].v = Ref("Make")
    /\ Len(prev_docs) = 3
    /\ Len(current_docs) = 2

\* the last stage was a $group whose one accumulator is n: {op: "$field"}
\* with one of the operators given
IsFieldGroup(ops) ==
    /\ trail # <<>>
    /\ LastRun.key = "$group"
    /\ Len(LastRun.val) = 2
    /\ LastRun.val[2].k = "n"
    /\ LastRun.val[2].acc[1].op \in ops
    /\ IsRef(LastRun.val[2].acc[1].val)

\* the value reads as a number: a number, or the numeral of one
IsNumeric(v) == v.t = "num" \/ (v.t = "str" /\ \E k \in 0..99 : Digits(k) = v.s)

\* the number a numeric value reads as
NumberOf(v) == IF v.t = "num" THEN v ELSE Num(CHOOSE k \in 0..99 : Digits(k) = v.s)

\* the members of the bucket of a key in a sequence whose field is numeric
NumericMembers(docs, id_expr, key, field) ==
    {i \in 1..Len(docs) :
        /\ (IF IsRef(id_expr) THEN Get(docs[i], RefField(id_expr)) ELSE id_expr) = key
        /\ IsNumeric(Get(docs[i], field))}

RECURSIVE SumOfMembers(_, _, _)
\* the numbers of those members, added up
SumOfMembers(docs, field, members) ==
    IF members = {} THEN Num(0)
    ELSE LET i == CHOOSE x \in members : TRUE
         IN Plus(NumberOf(Get(docs[i], field)), SumOfMembers(docs, field, members \ {i}))

\* what the accumulator op over the field is to give for those members
ExpectedOf(op, docs, field, members, n) ==
    IF op = "$sum" THEN n = SumOfMembers(docs, field, members)
    ELSE IF op = "$avg" THEN
        IF members = {} THEN n = Num(0)
        ELSE n = Rat(SumOfMembers(docs, field, members).n,
                     SumOfMembers(docs, field, members).d * Cardinality(members))
    ELSE IF members = {} THEN n = None
    ELSE /\ \E i \in members : n = NumberOf(Get(docs[i], field))
         /\ \A i \in members :
                IF op = "$min" THEN PyLess(NumberOf(Get(docs[i], field)), n) = "F"
                ELSE PyLess(n, NumberOf(Get(docs[i], field))) = "F"

\* C13: in each group, $sum, $avg, $min and $max over a field reference
\* are computed over exactly the members of the bucket whose value reads as
\* a number (numbers and numeric strings); the other members are ignored and
\* the stage does not fail; over no such member $avg gives 0 and $min and
\* $max give null.
C13_AccumulateOverNumericMembers ==
    IsFieldGroup({"$sum", "$avg", "$min", "$max"})
    => /\ ~raised
       /\ \A g \in 1..Len(current_docs) :
              /\ "n" \in DOMAIN current_docs[g]
              /\ ExpectedOf(LastRun.val[2].acc[1].op, prev_docs,
                            RefField(LastRun.val[2].acc[1].val),
                            NumericMembers(prev_docs, LastRun.val[1].v, current_docs[g]._id,
                                           RefField(LastRun.val[2].acc[1].val)),
                            current_docs[g].n)

\* $min over ISO by Make ran over a bucket that holds a number and a numeric
\* string and over a bucket whose one member has no ISO
C13_Witness ==
    /\ IsFieldGroup({"$min"})
    /\ LastRun.val[2].acc[1].val = Ref("ISO")
    /\ LastRun.val[1].v = Ref("Make")
    /\ Range(prev_docs) = {Doc5, Doc1, Doc4}
    /\ \E g \in 1..Len(current_docs) : current_docs[g].n = None
    /\ \E g \in 1..Len(current_docs) : current_docs[g].n = Num(2)

\* the output fields a group spec names: those of its accumulator entries
AccumulatorFields(spec) == {spec[i].k : i \in {j \in 1..Len(spec) : spec[j].k # "_id"}}

\* C14: every document output by $group holds _id and exactly one field
\* for each accumulator entry of the spec, whatever the operator and the
\* argument of the accumulator.
C14_OneFieldPerAccumulator ==
    (trail # <<>> /\ LastRun.key = "$group")
    => \A g \in 1..Len(current_docs) :
           DOMAIN current_docs[g] = {"_id"} \cup AccumulatorFields(LastRun.val)

\* C15: a $project whose spec maps an output field to a source-field
\* reference "$Source" gives, for every input document that has the source
\* field, an output document whose output field holds that field's value.
C15_ProjectRenames ==
    (trail # <<>> /\ LastRun.key = "$project" /\ ~raised)
    => \A j \in 1..Len(LastRun.val) :
           IsRef(LastRun.val[j].v)
           => \A i \in 1..Len(prev_docs) :
                  RefField(LastRun.val[j].v) \in DOMAIN prev_docs[i]
                  => /\ LastRun.val[j].k \in DOMAIN current_docs[i]
                     /\ current_docs[i][LastRun.val[j].k]
                            = prev_docs[i][RefField(LastRun.val[j].v)]

\* the spec maps the field to the directive (1 to include, 0 to exclude)
Maps(spec, field, directive) ==
    \E j \in 1..Len(spec) : spec[j].k = field /\ spec[j].v = Num(directive)

\* the spec includes a field other than _id
InclusionMode(spec) == \E j \in 1..Len(spec) : spec[j].k # "_id" /\ spec[j].v = Num(1)

\* the fields the output of a $project is to hold for one input document
ProjectedFields(doc, spec) ==
    IF InclusionMode(spec)
    THEN {k \in DOMAIN doc : Maps(spec, k, 1) \/ (k = "_id" /\ ~Maps(spec, "_id", 0))}
    ELSE {k \in DOMAIN doc : ~Maps(spec, k, 0)}

Min(a, b) == IF a < b THEN a ELSE b

\* the elements at positions from .. to-1 (counted from 0) of a sequence,
\* in its order; none when to <= from
Positions(docs, from, to) ==
    [i \in 1..(IF to > from THEN to - from ELSE 0) |-> docs[from + i]]

\* C17: over a sequence of length L, Skip(s) then Limit(n) gives the
\* elements at positions s .. min(s+n, L)-1 in input order; Limit(0) gives
\* the empty sequence; Skip(s) with s >= L gives the empty sequence; Limit(n)
\* then Skip(s) is run in that order, giving positions s .. min(n, L)-1.
C17_SkipLimitInOrder ==
    (trail # <<>> /\ LastRun.key \in {"$skip", "$limit"})
    => /\ ~raised
       /\ (Len(trail) = 2 /\ trail[1].key = "$skip" /\ trail[2].key = "$limit")
          => current_docs =
                 Positions(initial_docs, trail[1].val,
                           Min(trail[1].val + trail[2].val, Len(initial_docs)))
       /\ (Len(trail) = 2 /\ trail[1].key = "$limit" /\ trail[2].key = "$skip")
          => current_docs =
                 Positions(initial_docs, trail[2].val, Min(trail[1].val, Len(initial_docs)))
       /\ (LastRun.key = "$limit" /\ LastRun.val = 0) => current_docs = <<>>
       /\ (LastRun.key = "$skip" /\ LastRun.val >= Len(prev_docs)) => current_docs = <<>>

\* Skip(1) then Limit(1) ran over three documents and left the second
C17_Witness ==
    /\ Len(trail) = 2
    /\ trail[1] = Stage("$skip", 1)
    /\ trail[2] = Stage("$limit", 1)
    /\ Len(initial_docs) = 3
    /\ current_docs = <<initial_docs[2]>>

---------------------------------------------------------------------------
(* Properties of aggregate over the store *)

\* the last call was run_aggregation_pipeline on the text of a list
IsPipelineCall ==
    /\ call.op = "run_aggregation_pipeline"
    /\ call.input.list

\* C18: aggregate called with an empty pipeline returns an empty list, not
\* the collection, and makes no retrieval from the store, whatever the
\* store holds.
C18_EmptyPipelineIsEmpty ==
    (IsPipelineCall /\ call.input.pipeline = <<>>)
    => /\ ret.text = "results"
       /\ ret.docs = <<>>
       /\ ret.reads = 0

\* the empty pipeline ran over a store of two documents
C18_Witness ==
    /\ IsPipelineCall
    /\ call.input.pipeline = <<>>
    /\ Len(store) = 2
    /\ ret.docs = <<>>

\* the seed of a pipeline: what the store gives for a $match at position 0
\* (by nearness when the criteria hold a query text), the whole collection
\* otherwise
SeedOf(coll, rank, pipeline) ==
    IF pipeline[1].key # "$match" THEN StoreGetAll(coll, NoWhere)
    ELSE IF \E i \in 1..Len(pipeline[1].val) :
                pipeline[1].val[i].k = "query" /\ Truthy(pipeline[1].val[i].e.lit)
    THEN StoreQuery(coll, rank,
                    SelectSeq(pipeline[1].val, LAMBDA item : item.k # "query"),
                    Len(coll))
    ELSE StoreGetAll(coll, SelectSeq(pipeline[1].val, LAMBDA item : item.k # "query"))

\* the stages that run in memory: all but a $match at position 0
InMemoryStages(pipeline) ==
    IF pipeline[1].key = "$match" THEN Tail(pipeline) ELSE pipeline

\* the answer is the outcome r of the in-memory stages
AnswerIs(r) ==
    IF r.err THEN ret.text = "Error executing pipeline"
    ELSE ret.text = "results" /\ ret.docs = r.docs

\* C19: a call of aggregate on a pipeline that is not empty makes exactly
\* one retrieval from the store, for the seed: a $match at position 0 is
\* answered by the store and is not run again in memory, and every later
\* stage, a $match included, runs in memory over the output of the stage
\* before it.
C19_OneRetrievalThenMemory ==
    (IsPipelineCall /\ call.input.pipeline # <<>>)
    => /\ ret.reads = 1
       /\ AnswerIs(RunStages(SeedOf(store, call.rank, call.input.pipeline),
                             InMemoryStages(call.input.pipeline), 1))

\* a $match on ISO at position 0 was answered by the store, which holds a
\* document whose ISO is a string, and a later $match ran in memory
C19_Witness ==
    /\ IsPipelineCall
    /\ call.input.pipeline =
           <<Stage("$match", Cond("ISO", "$gt", LitV(Num(1)))),
             Stage("$match", Leaf("Make", Str(S_a)))>>
    /\ store = <<Doc5, Doc1>>
    /\ ret.reads = 1
    /\ Ids(ret.docs) = <<Doc1.SourceFile>>

---------------------------------------------------------------------------
(* The key cache.  The cache file holds the sorted list of the key names   *)
(* of one scan of the store, each name as its text.  The file is read and  *)
(* written whole and without I/O error.                                    *)

\* Database._scan_all_keys_from_db: the key names of all documents
_scan_all_keys_from_db(coll) ==
    {Codes[k] : k \in UNION {DOMAIN coll[i] : i \in 1..Len(coll)}}

RECURSIVE SortedStrings(_)
\* list(keys) then keys.sort(): the strings of a set in ascending order
SortedStrings(strings) ==
    IF strings = {} THEN <<>>
    ELSE <<CHOOSE x \in strings : \A y \in strings : ~LexLess(y, x)>>
         \o SortedStrings(strings \ {CHOOSE x \in strings : \A y \in strings : ~LexLess(y, x)})

\* the cache file after json.dump(keys, f)
Written(keys) == [exists |-> TRUE, keys |-> keys]

\* Database.update_keys_cache: the keys it returns and the cache it leaves
update_keys_cache(coll) ==
    [keys |-> SortedStrings(_scan_all_keys_from_db(coll)),
     cache |-> Written(SortedStrings(_scan_all_keys_from_db(coll))),
     reads |-> 1]

\* the lookup as it would be if the refresh flag were not looked at
LoadKeys_IgnoresRefresh(file, coll, refresh) ==
    IF ~file.exists THEN update_keys_cache(coll)
    ELSE [keys |-> file.keys, cache |-> file, reads |-> 0]

\* step 1 of get_cached_keys: refresh, or load the file
LoadKeys(file, coll, refresh) ==
    IF refresh \/ ~file.exists THEN update_keys_cache(coll)
    ELSE [keys |-> file.keys, cache |-> file, reads |-> 0]

S_General == <<71, 101, 110, 101, 114, 97, 108>>
S_EXIF == <<69, 88, 73, 70>>

\* k.startswith(prefix)
StartsWith(k, prefix) == Len(prefix) <= Len(k) /\ SubSeq(k, 1, Len(prefix)) = prefix

\* prefix = category if category.endswith(":") else f"{category}:"
PrefixOf(category) ==
    IF category[Len(category)] = 58 THEN category ELSE Append(category, 58)

\* k.split(":")[0] for a key that holds ":", "General" for one that does not
CategoryOf(k) ==
    IF \E i \in 1..Len(k) : k[i] = 58
    THEN SubSeq(k, 1, (CHOOSE i \in 1..Len(k) : k[i] = 58 /\ \A j \in 1..(i - 1) : k[j] # 58) - 1)
    ELSE S_General

\* step 2 of get_cached_keys: the keys of the category, or the categories
ProcessKeys(keys, category) ==
    IF Truthy(category)
    THEN SelectSeq(keys, LAMBDA k : StartsWith(k, PrefixOf(category.s)))
    ELSE SortedStrings({CategoryOf(keys[i]) : i \in 1..Len(keys)})

\* the answer of get_cached_keys once the keys are loaded
KeysAnswer(loaded, category) ==
    [keys |-> ProcessKeys(loaded.keys, category), cache |-> loaded.cache, reads |-> loaded.reads]

\* Database.get_cached_keys: the list it returns and the cache it leaves
get_cached_keys(file, coll, category, refresh) ==
    KeysAnswer(LoadKeys(file, coll, refresh), category)

\* Database.get_all_keys: every key, from the cache if there is one; the
\* set of a sorted list of distinct keys, sorted again, is that list
get_all_keys(file, coll) ==
    IF ~file.exists THEN update_keys_cache(coll)
    ELSE [keys |-> file.keys, cache |-> file, reads |-> 0]

---------------------------------------------------------------------------
(* SpecKeys: upserts and key lookups *)

KeyDoc1 ==
    [SourceFile |-> Str(<<47, 49>>), Make |-> Str(S_a)] @@ ("EXIF:ISO" :> Num(1))
KeyDoc2 ==
    [SourceFile |-> Str(<<47, 50>>)] @@ ("EXIF:Model" :> Str(S_b)) @@ ("IPTC:City" :> Str(S_a))
KeyDoc3 ==
    [SourceFile |-> Str(<<47, 51>>), Model |-> Str(S_a)]

KeyDocPool == {KeyDoc1, KeyDoc2, KeyDoc3}

\* the category arguments: none, "", "EXIF", "EXIF:", "General"
Categories ==
    {None, Str(<<>>), Str(S_EXIF), Str(Append(S_EXIF, 58)), Str(S_General)}

InitKeys ==
    /\ store = <<>>
    /\ device = NoDevice
    /\ local = NoLocal
    /\ scan = NoScan
    /\ caller = NoCaller
    /\ threads = NoThreads
    /\ disk = NoDisk
    /\ call = NoCall
    /\ ret = NoRet
    /\ cache = NoCache
    /\ initial_docs = <<>>
    /\ prev_docs = <<>>
    /\ current_docs = <<>>
    /\ trail = <<>>
    /\ raised = FALSE

\* what a key lookup returned
KeysRet(r) == [raised |-> FALSE, docs |-> <<>>, text |-> "keys", reads |-> r.reads, keys |-> r.keys]

\* db.get_cached_keys(category, refresh); the call record keeps the cache
\* file the call found
GetCachedKeys(category, refresh) ==
    /\ call = NoCall
    /\ call' = [op |-> "get_cached_keys", category |-> category, refresh |-> refresh,
                found |-> cache]
    /\ ret' = KeysRet(get_cached_keys(cache, store, category, refresh))
    /\ cache' = get_cached_keys(cache, store, category, refresh).cache
    /\ UNCHANGED <<store, initial_docs, prev_docs, current_docs, trail, raised, disk, threads, caller, scan, local, device>>

\* the tool get_metadata_keys: db.get_all_keys(), sorted
GetMetadataKeys ==
    /\ call = NoCall
    /\ call' = [op |-> "get_metadata_keys", found |-> cache]
    /\ ret' = KeysRet(get_all_keys(cache, store))
    /\ cache' = get_all_keys(cache, store).cache
    /\ UNCHANGED <<store, initial_docs, prev_docs, current_docs, trail, raised, disk, threads, caller, scan, local, device>>

NextKeys ==
    \/ \E meta \in KeyDocPool : Upsert(meta)
    \/ \E category \in Categories, refresh \in BOOLEAN : GetCachedKeys(category, refresh)
    \/ GetMetadataKeys
    \/ Return

SpecKeys == InitKeys /\ [][NextKeys]_vars

---------------------------------------------------------------------------
(* Properties of the key cache *)

\* the sorted key list of the store as it is
CurrentKeys == SortedStrings(_scan_all_keys_from_db(store))

---------------------------------------------------------------------------
(* The key cache file under concurrent lookups.  The file is a sequence of *)
(* character codes.  open(path, 'w') truncates it; json.dump hands the     *)
(* text to the file object chunk by chunk ('["k1"', ', "k2"', ..., ']'),   *)
(* and the file object may pass the chunks on to the file after any of     *)
(* them, each at the writer's own offset.  A reader reads the whole file   *)
(* in one read.                                                            *)

\* a key between double quotes
Quoted(k) == <<34>> \o k \o <<34>>

\* the chunks json.dump writes for a list of keys
Chunks(keys) ==
    IF keys = <<>> THEN <<(<<91, 93>>)>>
    ELSE [i \in 1..(Len(keys) + 1) |->
             IF i = 1 THEN <<91>> \o Quoted(keys[1])
             ELSE IF i <= Len(keys) THEN <<44, 32>> \o Quoted(keys[i])
             ELSE <<93>>]

RECURSIVE Offset(_, _)
\* the file offset of a writer that has written the chunks before chunk n
Offset(chunks, n) ==
    IF n <= 1 THEN 0 ELSE Offset(chunks, n - 1) + Len(chunks[n - 1])

\* write(piece) at offset off: bytes beyond the end leave a hole of NULs
Overlay(text, off, piece) ==
    [i \in 1..(IF Len(text) > off + Len(piece) THEN Len(text) ELSE off + Len(piece)) |->
        IF i > off /\ i <= off + Len(piece) THEN piece[i - off]
        ELSE IF i <= Len(text) THEN text[i]
        ELSE 0]

RECURSIVE JsonScan(_, _, _, _, _)
\* json.load of a text made of brackets, commas, blanks, NULs and quoted
\* keys without escapes: the list of strings it holds, or a decode error.
\* at: "value" before the list, "first" after '[', "string" inside a
\* string, "after" after a string, "next" after a comma, "end" after ']'
JsonScan(text, i, at, cur, acc) ==
    IF i > Len(text) THEN [ok |-> at = "end", keys |-> acc]
    ELSE IF at = "string"
    THEN IF text[i] = 34 THEN JsonScan(text, i + 1, "after", <<>>, Append(acc, cur))
         ELSE IF text[i] < 32 THEN [ok |-> FALSE, keys |-> <<>>]
         ELSE JsonScan(text, i + 1, "string", Append(cur, text[i]), acc)
    ELSE IF text[i] = 32 THEN JsonScan(text, i + 1, at, cur, acc)
    ELSE IF at = "value" /\ text[i] = 91 THEN JsonScan(text, i + 1, "first", cur, acc)
    ELSE IF at \in {"first", "next"} /\ text[i] = 34 THEN JsonScan(text, i + 1, "string", <<>>, acc)
    ELSE IF at \in {"first", "after"} /\ text[i] = 93 THEN JsonScan(text, i + 1, "end", cur, acc)
    ELSE IF at = "after" /\ text[i] = 44 THEN JsonScan(text, i + 1, "next", cur, acc)
    ELSE [ok |-> FALSE, keys |-> <<>>]

\* keys = json.load(f), or JSONDecodeError
json_load(text) == JsonScan(text, 1, "value", <<>>, <<>>)

\* the most lookups under way at once
MaxThreads == 3

Threads == 1..MaxThreads

\* a thread that runs no lookup
Idle == [pc |-> "idle", keys |-> <<>>, next |-> 0]

\* a document with no field but its path, and one with a namespaced key
TornDoc1 == [SourceFile |-> Str(<<47, 49>>)]
TornDoc2 == [SourceFile |-> Str(<<47, 50>>)] @@ ("EXIF:Model" :> Str(S_b))

TornDocPool == {TornDoc1, TornDoc2}

InitTorn ==
    /\ store = <<>>
    /\ device = NoDevice
    /\ local = NoLocal
    /\ scan = NoScan
    /\ caller = NoCaller
    /\ call = NoCall
    /\ ret = NoRet
    /\ cache = NoCache
    /\ disk = NoDisk
    /\ threads = [t \in Threads |-> Idle]
    /\ initial_docs = <<>>
    /\ prev_docs = <<>>
    /\ current_docs = <<>>
    /\ trail = <<>>
    /\ raised = FALSE

\* thread t moves to position pc
Moved(t, pc, keys, next) ==
    /\ threads' = [threads EXCEPT ![t] = [pc |-> pc, keys |-> keys, next |-> next]]
    /\ UNCHANGED <<store, call, ret, cache, initial_docs, prev_docs, current_docs, trail, raised, caller, scan, local, device>>

\* get_cached_keys(refresh) begins: refresh or not os.path.exists(cache_path)
CallGetCachedKeys(t, refresh) ==
    /\ threads[t].pc = "idle"
    /\ Moved(t, IF refresh \/ ~disk.exists THEN "scan" ELSE "read", <<>>, 0)
    /\ UNCHANGED disk

\* get_all_keys begins: not os.path.exists(cache_path)
CallGetAllKeys(t) ==
    /\ threads[t].pc = "idle"
    /\ Moved(t, IF ~disk.exists THEN "scan" ELSE "read", <<>>, 0)
    /\ UNCHANGED disk

\* keys = json.load(f); on a decode error the lookup goes on to
\* update_keys_cache
ReadFile(t) ==
    /\ threads[t].pc = "read"
    /\ IF json_load(disk.text).ok
       THEN Moved(t, "done", json_load(disk.text).keys, 0)
       ELSE Moved(t, "scan", <<>>, 0)
    /\ UNCHANGED disk

\* update_keys_cache: keys = list(self._scan_all_keys_from_db()); keys.sort()
ScanStore(t) ==
    /\ threads[t].pc = "scan"
    /\ Moved(t, "open", SortedStrings(_scan_all_keys_from_db(store)), 0)
    /\ UNCHANGED disk

\* update_keys_cache: open(self.cache_path, 'w') truncates the file
OpenForWrite(t) ==
    /\ threads[t].pc = "open"
    /\ disk' = [exists |-> TRUE, text |-> <<>>]
    /\ Moved(t, "write", threads[t].keys, 1)

\* update_keys_cache: json.dump passes the next chunk to the file; after
\* the last one the call returns its keys
WriteChunk(t) ==
    /\ threads[t].pc = "write"
    /\ disk' = [disk EXCEPT !.text =
                   Overlay(disk.text, Offset(Chunks(threads[t].keys), threads[t].next),
                           Chunks(threads[t].keys)[threads[t].next])]
    /\ Moved(t, IF threads[t].next = Len(Chunks(threads[t].keys)) THEN "done" ELSE "write",
             threads[t].keys, threads[t].next + 1)

\* the lookup returns
ReturnKeys(t) ==
    /\ threads[t].pc = "done"
    /\ Moved(t, "idle", <<>>, 0)
    /\ UNCHANGED disk

NextTorn ==
    \/ \E meta \in TornDocPool : Upsert(meta)
    \/ \E t \in Threads, refresh \in BOOLEAN : CallGetCachedKeys(t, refresh)
    \/ \E t \in Threads : CallGetAllKeys(t)
    \/ \E t \in Threads : ReadFile(t)
    \/ \E t \in Threads : ScanStore(t)
    \/ \E t \in Threads : OpenForWrite(t)
    \/ \E t \in Threads : WriteChunk(t)
    \/ \E t \in Threads : ReturnKeys(t)

SpecTorn == InitTorn /\ [][NextTorn]_vars

\* the complete key lists of the scans of the store as it was at any
\* time: documents are only ever added, so every earlier store is a prefix
PastScans ==
    {SortedStrings(_scan_all_keys_from_db(SubSeq(store, 1, n))) : n \in 0..Len(store)}

\* C21: when cache refreshes interleave with lookups and with each other,
\* every key list a lookup uses is the complete key list of some scan of
\* the store, never a torn or partial one.
C21_NoTornList ==
    \A t \in Threads : threads[t].pc = "done" => threads[t].keys \in PastScans

---------------------------------------------------------------------------
(* SpecFrame: upserts, key lookups and query handlers that fail or succeed *)

FramePool == {Doc1, Doc4, Doc5}

\* pipelines that run through, that raise in an in-memory stage, and that
\* are rejected before the engine is called
FramePipelineInputs ==
    {[json |-> TRUE, list |-> TRUE, pipeline |-> p] :
        p \in {<<>>,
               <<Stage("$sort", <<[k |-> "ISO", dir |-> Num(1)]>>)>>,
               <<Stage("$match", <<QueryItem>>), Stage("$count", "n")>>,
               <<Stage("$match", Leaf("Make", Str(S_a))),
                 Stage("$sort", <<[k |-> "ISO", dir |-> Num(-1)]>>)>>}}
    \cup {[json |-> FALSE, list |-> FALSE, pipeline |-> <<>>]}

FrameQueryInputs ==
    {[json |-> TRUE, dict |-> TRUE, data |-> d] :
        d \in [query : {None, Str(S_q)},
               where : {NoWhere},
               sort_by : {"", "ISO"},
               sort_order : {"asc"},
               limit : {MaxLimit},
               offset : {0},
               projection : {<<>>}]}
    \cup {[json |-> TRUE, dict |-> FALSE, data |-> NoData]}

InitFrame == InitKeys

NextFrame ==
    \/ \E meta \in FramePool : Upsert(meta)
    \/ \E refresh \in BOOLEAN : GetCachedKeys(None, refresh)
    \/ \E input \in FramePipelineInputs, rank \in Rankings(store) :
           RunAggregationPipeline(input, rank)
    \/ \E input \in FrameQueryInputs, rank \in Rankings(store) :
           RunAdvancedQuery(input, rank)
    \/ Return

SpecFrame == InitFrame /\ [][NextFrame]_vars

\* the last call was one of the two query handlers
IsQueryCall(c) == c.op \in {"run_aggregation_pipeline", "run_advanced_query"}

\* what the handler answers on a collection
AnswerOn(coll, c) ==
    IF c.op = "run_aggregation_pipeline"
    THEN run_aggregation_pipeline(coll, c.rank, c.input)
    ELSE run_advanced_query(coll, c.rank, c.input)

---------------------------------------------------------------------------
(* Properties of the projection of advanced_query *)

\* the stored document with the path of a returned document
StoredAs(d) == store[CHOOSE i \in 1..Len(store) : store[i].SourceFile = d.SourceFile]

\* the fields of the matched document a returned document stems from: those
\* of the stored document, and score after a semantic retrieval
MatchedFields(d, query) ==
    DOMAIN StoredAs(d) \cup (IF Truthy(query) THEN {"score"} ELSE {})

\* advanced_query returned documents for a non-empty projection list
IsProjectedQuery ==
    /\ call.op = "run_advanced_query"
    /\ call.input.dict
    /\ call.input.data.projection # <<>>
    /\ ret.text = "results"

\* C23: with a non-empty projection list every document advanced_query
\* returns holds SourceFile and, of the listed fields, exactly those the
\* matched document holds, each with its value, and no other field.
C23_ProjectionKeepsListedFields ==
    IsProjectedQuery
    => \A i \in 1..Len(ret.docs) :
           /\ "SourceFile" \in DOMAIN ret.docs[i]
           /\ \E j \in 1..Len(store) : store[j].SourceFile = ret.docs[i].SourceFile
           /\ DOMAIN ret.docs[i]
                  = {"SourceFile"}
                    \cup {f \in Range(call.input.data.projection) :
                             f \in MatchedFields(ret.docs[i], call.input.data.query)}
           /\ \A f \in DOMAIN ret.docs[i] \cap DOMAIN StoredAs(ret.docs[i]) :
                  ret.docs[i][f] = StoredAs(ret.docs[i])[f]

\* ISO and score were listed; of two returned documents one holds an ISO
\* and the other, whose stored document has none, holds SourceFile alone
C23_Witness ==
    /\ IsProjectedQuery
    /\ call.input.data.projection = <<"ISO", "score">>
    /\ \E i, j \in 1..Len(ret.docs) :
           /\ DOMAIN ret.docs[i] = {"SourceFile"}
           /\ DOMAIN ret.docs[j] = {"SourceFile", "ISO"}

---------------------------------------------------------------------------
(* Properties of the seed of a pipeline *)

\* the criteria of a $match hold the key "query"
HasQueryKey(criteria) == \E i \in 1..Len(criteria) : criteria[i].k = "query"

\* the criteria without the key "query"
RemainingFilter(criteria) == SelectSeq(criteria, LAMBDA item : item.k # "query")

\* the seed as claimed: by nearness, each document with its score and at
\* most AggregateFetch of them, when the criteria hold the key "query";
\* the matching documents as stored otherwise
ClaimedSeed(coll, rank, criteria) ==
    IF HasQueryKey(criteria)
    THEN StoreQuery(coll, rank, RemainingFilter(criteria), AggregateFetch)
    ELSE StoreGetAll(coll, RemainingFilter(criteria))

\* C24: when the $match at position 0 holds the key "query", the seed is
\* retrieved by nearness with the rest of the criteria as filter, holds at
\* most 2000 documents whatever $limit follows, and each seed document
\* carries a score; when it does not hold the key, no score is added.
C24_QueryKeySeedsByNearness ==
    (IsPipelineCall /\ call.input.pipeline # <<>> /\ call.input.pipeline[1].key = "$match")
    => AnswerIs(RunStages(ClaimedSeed(store, call.rank, call.input.pipeline[1].val),
                          Tail(call.input.pipeline), 1))

---------------------------------------------------------------------------
(* Properties of the buckets of $group *)

\* the last stage was a $group
IsGroup == trail # <<>> /\ LastRun.key = "$group"

\* the _id expression of the last stage
IdExpr == LastRun.val[1].v

\* the key the claim gives the input document at position i: the value of
\* the referenced field, null when the document lacks it, and the
\* expression itself when it is a constant or null
KeyAt(i) ==
    IF IsRef(IdExpr)
    THEN IF RefField(IdExpr) \in DOMAIN prev_docs[i] THEN prev_docs[i][RefField(IdExpr)] ELSE None
    ELSE IdExpr

\* the positions at which a key occurs for the first time
FirstSeen == {i \in 1..Len(prev_docs) : \A j \in 1..(i - 1) : KeyAt(j) # KeyAt(i)}

\* the g-th of those positions
NthFirstSeen(g) == CHOOSE i \in FirstSeen : Cardinality({j \in FirstSeen : j < i}) = g - 1

\* the last stage counts the documents of each bucket in n
CountsBuckets == \E j \in 2..Len(LastRun.val) : LastRun.val[j] = AccItem("n", "$sum", Num(1))

\* C25: $group outputs one document per distinct group key, in the order
\* in which the keys first occur in the input; each input document is in
\* the bucket of its key and in no other, so the bucket sizes add up to the
\* input length; a document that lacks the group field is in the bucket of
\* the null key; a constant or null _id gives a single bucket.
C25_BucketsInFirstSeenOrder ==
    IsGroup
    => /\ ~raised
       /\ Len(current_docs) = Cardinality(FirstSeen)
       /\ \A g \in 1..Len(current_docs) : current_docs[g]._id = KeyAt(NthFirstSeen(g))
       /\ CountsBuckets
          => /\ \A g \in 1..Len(current_docs) :
                    current_docs[g].n.n
                        = Cardinality({i \in 1..Len(prev_docs) : KeyAt(i) = current_docs[g]._id})
             /\ SumOfN(current_docs, 1) = Len(prev_docs)
       /\ (~IsRef(IdExpr) /\ prev_docs # <<>>) => Len(current_docs) = 1

\* three documents were grouped by ISO: the first and the third share an
\* ISO and their bucket comes first; the second lacks the field and is
\* alone in the bucket of the null key
C25_Witness ==
    /\ IsGroup
    /\ IdExpr = Ref("ISO")
    /\ CountsBuckets
    /\ prev_docs = <<Doc2, Doc4, Doc3>>
    /\ Len(current_docs) = 2
    /\ current_docs[1]._id = Num(1)
    /\ current_docs[1].n = Num(2)
    /\ current_docs[2]._id = None
    /\ current_docs[2].n = Num(1)

---------------------------------------------------------------------------
(* Properties of the categories of the key cache *)

\* a category argument without its trailing colon, if it has one
Bare(category) ==
    IF category # <<>> /\ category[Len(category)] = 58
    THEN SubSeq(category, 1, Len(category) - 1)
    ELSE category

\* the categories get_cached_keys(category=None) lists for the cache
CategoriesOf(keys) == {CategoryOf(keys[i]) : i \in 1..Len(keys)}

\* C26: for every category c that get_cached_keys(category=None) lists,
\* get_cached_keys(category=c) returns exactly the cached keys of that
\* category, the keys without a namespace being those of "General", and
\* "c:" gives the same list as "c"; so every cached key is listed under
\* exactly one category.
C26_CategoriesPartitionKeys ==
    (/\ call.op = "get_cached_keys"
     /\ Truthy(call.category)
     /\ Bare(call.category.s) \in CategoriesOf(cache.keys))
    => ret.keys = SelectSeq(cache.keys, LAMBDA k : CategoryOf(k) = Bare(call.category.s))

---------------------------------------------------------------------------
(* SpecReuse: a caller runs Database.aggregate on one pipeline object more *)
(* than once.  The object is the list the caller passed; aggregate rebinds *)
(* its own name (pipeline = pipeline[1:]) but pops "query" from the        *)
(* criteria mapping of the object itself.                                  *)

\* the caller's list after aggregate returned or raised
PipelineAfter(pipeline) ==
    IF pipeline # <<>> /\ pipeline[1].key = "$match"
    THEN [pipeline EXCEPT ![1] = Stage("$match", WithoutQuery(pipeline[1].val))]
    ELSE pipeline

\* the most runs of one pipeline object
MaxRuns == 2

\* the pipeline objects a caller holds
HeldPipelines ==
    {<<>>,
     <<Stage("$match", Leaf("Make", Str(S_a)))>>,
     <<Stage("$match", <<QueryItem>>)>>,
     <<Stage("$match", <<QueryItem>> \o Leaf("Make", Str(S_a))), Stage("$count", "n")>>,
     <<Stage("$group", <<IdItem(Ref("Make")), AccItem("n", "$sum", Num(1))>>)>>,
     <<Stage("$sort", <<[k |-> "ISO", dir |-> Num(1)]>>), Stage("$limit", 1)>>}

InitReuse ==
    /\ caller \in {[given |-> p, now |-> p, runs |-> <<>>] : p \in HeldPipelines}
    /\ device = NoDevice
    /\ local = NoLocal
    /\ scan = NoScan
    /\ store = <<>>
    /\ call = NoCall
    /\ ret = NoRet
    /\ cache = NoCache
    /\ disk = NoDisk
    /\ threads = NoThreads
    /\ initial_docs = <<>>
    /\ prev_docs = <<>>
    /\ current_docs = <<>>
    /\ trail = <<>>
    /\ raised = FALSE

\* one run of db.aggregate(pipeline) on the object; the ranking of a query
\* text is that of the run before when the store is the same
AggregateHeld(rank) ==
    /\ call = NoCall
    /\ Len(caller.runs) < MaxRuns
    /\ (caller.runs # <<>> /\ caller.runs[Len(caller.runs)].store = store)
       => rank = caller.runs[Len(caller.runs)].rank
    /\ caller' = [caller EXCEPT
                     !.now = PipelineAfter(caller.now),
                     !.runs = Append(caller.runs,
                                     [store |-> store, rank |-> rank,
                                      result |-> aggregate(store, rank, caller.now)])]
    /\ UNCHANGED <<store, call, ret, cache, disk, threads,
                   initial_docs, prev_docs, current_docs, trail, raised, scan, local, device>>

NextReuse ==
    \/ \E meta \in FramePool : Upsert(meta)
    \/ \E rank \in Rankings(store) : AggregateHeld(rank)

SpecReuse == InitReuse /\ [][NextReuse]_vars

\* C27: aggregate leaves the pipeline object of its caller as it was, the
\* criteria of a $match at position 0 and their query key included, so two
\* runs of one pipeline object on the same store return the same result.
C27_PipelineObjectUnchanged ==
    /\ caller.now = caller.given
    /\ \A i, j \in 1..Len(caller.runs) :
           caller.runs[i].store = caller.runs[j].store
           => caller.runs[i].result = caller.runs[j].result

---------------------------------------------------------------------------
(* scan_photos (src/src/device.py).  A file of the device is a record      *)
(* [path, ext]; paths are numbers, in the order os.walk lists them.  The   *)
(* metadata ExifTool extracts for a path is stood for by the path.         *)

\* chunk_size = 50
ChunkSize == 50

\* max_workers: int = 4
DefaultWorkers == 4

\* lower_f.endswith(('.jpg', '.jpeg', '.png', '.heic', '.mov', '.mp4'))
IsMedia(ext) ==
    ext \in {"jpg", "JPG", "jpeg", "JPEG", "png", "PNG", "heic", "HEIC",
             "mov", "MOV", "mp4", "MP4"}

\* the test of the loop without the look into existing_files
IsNewMedia_IgnoresExisting(file, existing) == IsMedia(file.ext)

\* the test of the loop over os.walk: a media file that is not in
\* existing_files (existing.given is FALSE for existing_files=None)
IsNewMedia(file, existing) ==
    /\ IsMedia(file.ext)
    /\ ~(existing.given /\ existing.paths # {} /\ file.path \in existing.paths)

\* all_paths.append(full_path) for each file kept
PathsOf(kept) == [i \in 1..Len(kept) |-> kept[i].path]

\* all_paths after the loop
AllPaths(files, existing) ==
    PathsOf(SelectSeq(files, LAMBDA f : IsNewMedia(f, existing)))

\* chunks that share their border path
ChunksOf_Overlapping(all_paths) ==
    [c \in 1..((Len(all_paths) + ChunkSize - 1) \div ChunkSize) |->
        SubSeq(all_paths, (c - 1) * ChunkSize + (IF c > 1 THEN 0 ELSE 1),
               IF c * ChunkSize < Len(all_paths) THEN c * ChunkSize ELSE Len(all_paths))]

\* chunks = [all_paths[i:i + chunk_size] for i in range(0, len(all_paths), chunk_size)]
ChunksOf(all_paths) ==
    [c \in 1..((Len(all_paths) + ChunkSize - 1) \div ChunkSize) |->
        SubSeq(all_paths, (c - 1) * ChunkSize + 1,
               IF c * ChunkSize < Len(all_paths) THEN c * ChunkSize ELSE Len(all_paths))]

\* process_chunk: the metadata of the chunk, or [] when ExifTool raised
process_chunk(chunk, ok) == IF ok THEN chunk ELSE <<>>

\* the most chunks of a scan
MaxChunks == 3

\* the numbers of media files on the device: none, one, a full chunk, one
\* more than a full chunk, and four more than MaxChunks - 1 full chunks
MediaCounts == {0, 1, ChunkSize, ChunkSize + 1, (MaxChunks - 1) * ChunkSize + 4}

\* a device that lists junk files that are no media, then n media files
Listing(n, junk) ==
    [i \in 1..(n + junk) |->
        [path |-> i,
         ext |-> IF i <= junk THEN "txt" ELSE IF i % 2 = 0 THEN "JPG" ELSE "mov"]]

Listings == {Listing(n, junk) : n \in MediaCounts, junk \in {0, 2}}

\* existing_files: None, the empty set, the first media files, and a set
\* that also holds a path the device does not list
ExistingSets ==
    {[given |-> FALSE, paths |-> {}], [given |-> TRUE, paths |-> {}],
     [given |-> TRUE, paths |-> {1, 2, 3}], [given |-> TRUE, paths |-> {3, 1000}]}

InitScan ==
    /\ scan = NoScan
    /\ device = NoDevice
    /\ local = NoLocal
    /\ store = <<>>
    /\ call = NoCall
    /\ ret = NoRet
    /\ cache = NoCache
    /\ disk = NoDisk
    /\ threads = NoThreads
    /\ caller = NoCaller
    /\ initial_docs = <<>>
    /\ prev_docs = <<>>
    /\ current_docs = <<>>
    /\ trail = <<>>
    /\ raised = FALSE

ScanFrame ==
    UNCHANGED <<store, call, ret, cache, disk, threads, caller,
                initial_docs, prev_docs, current_docs, trail, raised, local, device>>

\* executor.submit(process_chunk, chunk) for every chunk
Submitted(files, existing, has_callback, max_workers, all_paths, chunks) ==
    [phase |-> IF all_paths = <<>> THEN "returned" ELSE "running",
     files |-> files,
     existing |-> existing,
     has_callback |-> has_callback,
     max_workers |-> max_workers,
     all_paths |-> all_paths,
     chunks |-> chunks,
     future |-> [c \in DOMAIN chunks |-> "queued"],
     data |-> [c \in DOMAIN chunks |-> <<>>],
     metadata_list |-> <<>>,
     callbacks |-> <<>>]

\* the chunks of all_paths
Chunked(files, existing, has_callback, max_workers, all_paths) ==
    Submitted(files, existing, has_callback, max_workers, all_paths, ChunksOf(all_paths))

\* the scan up to the submission of every chunk; no media file to process
\* returns [] at once
ScanPhotos(files, existing, has_callback, max_workers) ==
    /\ scan.phase = "idle"
    /\ scan' = Chunked(files, existing, has_callback, max_workers, AllPaths(files, existing))
    /\ ScanFrame

\* a worker thread takes the chunk that was submitted first among those
\* that wait
BeginChunk(c) ==
    /\ scan.phase = "running"
    /\ c \in DOMAIN scan.future
    /\ scan.future[c] = "queued"
    /\ \A b \in 1..(c - 1) : scan.future[b] # "queued"
    /\ Cardinality({b \in DOMAIN scan.future : scan.future[b] = "running"}) < scan.max_workers
    /\ scan' = [scan EXCEPT !.future[c] = "running"]
    /\ ScanFrame

\* process_chunk returns in a worker thread; ok is FALSE when ExifTool raised
FinishChunk(c, ok) ==
    /\ scan.phase = "running"
    /\ c \in DOMAIN scan.future
    /\ scan.future[c] = "running"
    /\ scan' = [scan EXCEPT !.future[c] = IF ok THEN "done" ELSE "failed",
                            !.data[c] = process_chunk(scan.chunks[c], ok)]
    /\ ScanFrame

\* one turn of the loop over as_completed: a future that completed and was
\* not yet taken
CollectChunk(c) ==
    /\ scan.phase = "running"
    /\ c \in DOMAIN scan.future
    /\ scan.future[c] \in {"done", "failed"}
    /\ scan' = [scan EXCEPT
                   !.future[c] = "taken",
                   !.callbacks = IF scan.data[c] # <<>> /\ scan.has_callback
                                 THEN Append(@, Len(scan.data[c])) ELSE @,
                   !.metadata_list = IF scan.data[c] # <<>> THEN @ \o scan.data[c] ELSE @]
    /\ ScanFrame

\* return metadata_list, once the loop took every future
ReturnScan ==
    /\ scan.phase = "running"
    /\ \A c \in DOMAIN scan.future : scan.future[c] = "taken"
    /\ scan' = [scan EXCEPT !.phase = "returned"]
    /\ ScanFrame

NextScan ==
    \/ \E files \in Listings, existing \in ExistingSets, has_callback \in BOOLEAN,
          max_workers \in {1, DefaultWorkers} :
           ScanPhotos(files, existing, has_callback, max_workers)
    \/ \E c \in 1..MaxChunks : BeginChunk(c)
    \/ \E c \in 1..MaxChunks, ok \in BOOLEAN : FinishChunk(c, ok)
    \/ \E c \in 1..MaxChunks : CollectChunk(c)
    \/ ReturnScan

SpecScan == InitScan /\ [][NextScan]_vars

---------------------------------------------------------------------------
(* Properties of scan_photos *)

\* the paths of the discovered media files that are not in existing_files
Discovered ==
    {scan.files[i].path : i \in {j \in 1..Len(scan.files) :
        IsMedia(scan.files[j].ext) /\ scan.files[j].path \notin scan.existing.paths}}

RECURSIVE Joined(_, _)
\* the chunks from chunk c on, one after the other
Joined(chunks, c) ==
    IF c > Len(chunks) THEN <<>> ELSE chunks[c] \o Joined(chunks, c + 1)

\* no element stands twice in the sequence
Distinct(seq) == Cardinality(Range(seq)) = Len(seq)

\* the chunks whose extraction did not fail
Extracted == {c \in DOMAIN scan.chunks : scan.data[c] # <<>>}

RECURSIVE SumOf(_, _)
SumOf(sizes, i) == IF i > Len(sizes) THEN 0 ELSE sizes[i] + SumOf(sizes, i + 1)

---------------------------------------------------------------------------
\* copy_files_to_local (server.py): copies from the mounted device to a
\* local folder

\* MOUNT_POINT = "/tmp/iphone"
MOUNT_POINT == <<47, 116, 109, 112, 47, 105, 112, 104, 111, 110, 101>>

\* "/tmp/iphone/a.jpg", "/tmp/iphone/b.jpg": files on the device
P_a == <<47, 116, 109, 112, 47, 105, 112, 104, 111, 110, 101, 47, 97, 46, 106, 112, 103>>
P_b == <<47, 116, 109, 112, 47, 105, 112, 104, 111, 110, 101, 47, 98, 46, 106, 112, 103>>
\* "/tmp/iphone/x.jpg": no such file
P_x == <<47, 116, 109, 112, 47, 105, 112, 104, 111, 110, 101, 47, 120, 46, 106, 112, 103>>
\* "/tmp/iphone/DCIM": a directory on the device
P_dcim == <<47, 116, 109, 112, 47, 105, 112, 104, 111, 110, 101, 47, 68, 67, 73, 77>>
\* "/etc/a.jpg": a file outside the mount point
P_etc == <<47, 101, 116, 99, 47, 97, 46, 106, 112, 103>>
\* "/tmp/iphone2/a.jpg": a file in a sibling folder whose name starts with the
\* text of the mount point
P_sibling == <<47, 116, 109, 112, 47, 105, 112, 104, 111, 110, 101, 50, 47, 97, 46, 106, 112, 103>>

PathPool == {P_a, P_b, P_x, P_dcim, P_etc, P_sibling}
RegularFiles == {P_a, P_b, P_etc, P_sibling}
Directories == {P_dcim}

\* os.path.exists(src)
path_exists(src) == src \in RegularFiles \cup Directories

\* os.path.basename(src): what follows the last "/"
RECURSIVE LastSlash(_, _)
LastSlash(s, i) == IF i = 0 THEN 0 ELSE IF s[i] = 47 THEN i ELSE LastSlash(s, i - 1)

basename(s) == SubSeq(s, LastSlash(s, Len(s)) + 1, Len(s))

\* shutil.copy2(src, dest_path) raises: src is a directory, or the
\* destination "folder" is a regular file
copy2_raises(src, folder) == src \in Directories \/ folder = "file"

Denied(acc, src, why) == [acc EXCEPT !.errors = Append(@, [src |-> src, why |-> why])]

\* the body of the loop without its security check
CopyOne_NoSecurityCheck(src, folder, acc) ==
    IF ~path_exists(src) THEN Denied(acc, src, "File not found")
    ELSE IF copy2_raises(src, folder) THEN Denied(acc, src, "str(e)")
    ELSE [acc EXCEPT !.success_count = @ + 1,
                     !.copied = Append(@, src),
                     !.files = @ \cup {basename(src)}]

\* the body of `for src in source_paths`
CopyOne(src, folder, acc) ==
    IF ~StartsWith(src, MOUNT_POINT)
    THEN Denied(acc, src, "Access denied (outside mount point)")
    ELSE IF ~path_exists(src) THEN Denied(acc, src, "File not found")
    ELSE IF copy2_raises(src, folder) THEN Denied(acc, src, "str(e)")
    ELSE [acc EXCEPT !.success_count = @ + 1,
                     !.copied = Append(@, src),
                     !.files = @ \cup {basename(src)}]

RECURSIVE CopyLoop(_, _, _, _)
CopyLoop(source_paths, i, folder, acc) ==
    IF i > Len(source_paths) THEN acc
    ELSE CopyLoop(source_paths, i + 1, folder, CopyOne(source_paths[i], folder, acc))

\* the message returned after the loop
CopyReply(source_paths, acc) ==
    IF acc.errors = <<>>
    THEN [kind |-> "Successfully copied all", counted |-> TRUE,
          success_count |-> acc.success_count, errors |-> <<>>]
    ELSE [kind |-> "Copied", counted |-> TRUE, success_count |-> acc.success_count,
          total |-> Len(source_paths), errors |-> acc.errors]

\* copy_files_to_local(source_paths, destination_folder); folder is what
\* destination_folder is on disk ("absent", "dir" or "file"), files the names
\* in it, makedirs_ok whether os.makedirs succeeds
copy_files_to_local(source_paths, folder, files, makedirs_ok) ==
    IF folder = "absent" /\ ~makedirs_ok
    THEN [folder |-> folder, files |-> files, source_paths |-> source_paths,
          copied |-> <<>>,
          reply |-> [kind |-> "Error creating destination folder", counted |-> FALSE]]
    ELSE [folder |-> IF folder = "absent" THEN "dir" ELSE folder,
          files |-> CopyLoop(source_paths, 1, IF folder = "absent" THEN "dir" ELSE folder,
                        [success_count |-> 0, errors |-> <<>>, copied |-> <<>>,
                         files |-> files]).files,
          source_paths |-> source_paths,
          copied |-> CopyLoop(source_paths, 1, IF folder = "absent" THEN "dir" ELSE folder,
                        [success_count |-> 0, errors |-> <<>>, copied |-> <<>>,
                         files |-> files]).copied,
          reply |-> CopyReply(source_paths,
                        CopyLoop(source_paths, 1, IF folder = "absent" THEN "dir" ELSE folder,
                            [success_count |-> 0, errors |-> <<>>, copied |-> <<>>,
                             files |-> files]))]

MaxPaths == 2

\* the lists of source paths a client sends
PathLists == UNION {[1..n -> PathPool] : n \in 0..MaxPaths}

InitCopy ==
    /\ local \in {[NoLocal EXCEPT !.folder = f] : f \in {"absent", "dir", "file"}}
    /\ device = NoDevice
    /\ scan = NoScan
    /\ store = <<>>
    /\ call = NoCall
    /\ ret = NoRet
    /\ cache = NoCache
    /\ disk = NoDisk
    /\ threads = NoThreads
    /\ caller = NoCaller
    /\ initial_docs = <<>>
    /\ prev_docs = <<>>
    /\ current_docs = <<>>
    /\ trail = <<>>
    /\ raised = FALSE

CopyFilesToLocal(source_paths, makedirs_ok) ==
    /\ local' = copy_files_to_local(source_paths, local.folder, local.files, makedirs_ok)
    /\ UNCHANGED <<initial_docs, prev_docs, current_docs, trail, raised, store, call, ret,
                   cache, disk, threads, caller, scan, device>>

NextCopy ==
    \E source_paths \in PathLists, makedirs_ok \in BOOLEAN :
        CopyFilesToLocal(source_paths, makedirs_ok)

SpecCopy == InitCopy /\ [][NextCopy]_vars

\* a call of copy_files_to_local has returned
CopyReturned == local.reply.kind # "none"

\* how often path p stands in the list
Occurrences(seq, p) == Cardinality({i \in 1..Len(seq) : seq[i] = p})

\* what one path comes to on its own: it is copied exactly when it starts
\* with the mount point, exists and copy2 does not raise on it
CopiedAlone(p) ==
    StartsWith(p, MOUNT_POINT) /\ path_exists(p) /\ ~copy2_raises(p, local.folder)

\* every path of the list was handled by itself: it was copied as often as it
\* is listed if it copies alone, reported as an error that often if not
EachPathOnItsOwn ==
    \A p \in PathPool :
        /\ Occurrences(local.copied, p) =
               IF CopiedAlone(p) THEN Occurrences(local.source_paths, p) ELSE 0
        /\ Cardinality({i \in 1..Len(local.reply.errors) : local.reply.errors[i].src = p}) =
               IF CopiedAlone(p) THEN 0 ELSE Occurrences(local.source_paths, p)

\* C29 as stated: no path outside the text prefix of the mount point is
\* copied, every path of every list is processed on its own, and the reply
\* reports a success count that, with the number of reported errors, adds up
\* to the number of source paths.
C29_EveryListIsProcessed ==
    CopyReturned =>
        /\ \A i \in 1..Len(local.copied) : StartsWith(local.copied[i], MOUNT_POINT)
        /\ local.reply.counted
        /\ EachPathOnItsOwn
        /\ local.reply.success_count + Len(local.reply.errors) = Len(local.source_paths)

\* C29 amended: no path that does not start with the mount point is ever
\* copied; when the destination folder exists or can be created, every path is
\* processed on its own and success count plus reported errors equals the
\* number of source paths; when the folder cannot be created the call returns
\* "Error creating destination folder", copies nothing and reports no count.
C29_ProcessedOnceFolderStands ==
    CopyReturned =>
        /\ \A i \in 1..Len(local.copied) : StartsWith(local.copied[i], MOUNT_POINT)
        /\ local.reply.counted =>
               /\ EachPathOnItsOwn
               /\ local.reply.success_count = Len(local.copied)
               /\ local.reply.success_count + Len(local.reply.errors) = Len(local.source_paths)
        /\ ~local.reply.counted =>
               /\ local.copied = <<>>
               /\ local.folder = "absent"

\* a denied path, then a good one: the good one is copied and the reply counts
\* one success and one error
C29_Witness ==
    /\ local.source_paths = <<P_etc, P_a>>
    /\ local.copied = <<P_a>>
    /\ local.reply.kind = "Copied"
    /\ local.reply.success_count = 1
    /\ Len(local.reply.errors) = 1

---------------------------------------------------------------------------
\* scan_and_cache_photos (server.py): mount, scan what is not cached, upsert

\* os.path.join(mount_point, "DCIM") and a "/": "/tmp/iphone/DCIM/"
DCIM_PATH == MOUNT_POINT \o <<47, 68, 67, 73, 77, 47>>

\* full_path = os.path.join(root, file) of the n-th file of the folder
full_path(n) == Append(DCIM_PATH, 48 + n)

\* a device that lists one file that is no media, then n media files
DeviceListing(n) ==
    [i \in 1..(n + 1) |->
        [path |-> full_path(i - 1),
         ext |-> IF i = 1 THEN "txt" ELSE IF i % 2 = 0 THEN "JPG" ELSE "mov",
         version |-> 1]]

\* Database.get_existing_files_map: set(results['ids'])
get_existing_files_map(coll) == {coll[i].SourceFile.s : i \in 1..Len(coll)}

\* what ExifTool reports on one file: its path as SourceFile, and tags that
\* follow the content of the file
ExifMeta(file) ==
    ("SourceFile" :> Str(file.path)) @@ ("File:FileModifyDate" :> Num(file.version))

\* et.get_metadata(chunk): one dictionary per path
get_metadata(chunk, files) ==
    [i \in 1..Len(chunk) |-> ExifMeta(CHOOSE f \in Range(files) : f.path = chunk[i])]

RECURSIVE Collected(_, _, _, _, _)
\* metadata_list.extend(data) for each future in the order of completion
Collected(chunks, oks, order, files, k) ==
    IF k > Len(chunks) THEN <<>>
    ELSE get_metadata(process_chunk(chunks[order[k]], oks[order[k]]), files)
             \o Collected(chunks, oks, order, files, k + 1)

\* all_paths of scan_photos(MOUNT_POINT, existing_files=existing_files)
UncachedPaths(files, existing_files) ==
    AllPaths(files, [given |-> TRUE, paths |-> existing_files])

\* scan_photos(MOUNT_POINT, existing_files=existing_files): oks tells which
\* chunks ExifTool reads, order the order the futures complete in
scan_photos(files, existing_files, oks, order) ==
    Collected(ChunksOf(UncachedPaths(files, existing_files)), oks, order, files, 1)

\* the metas of a batch that upsert_files keeps: `if path:`
WithPath(metadata_list) ==
    SelectSeq(metadata_list, LAMBDA meta : Truthy(Get(meta, "SourceFile")))

\* the last meta of the batch with that id: the one collection.upsert leaves
LastWithId(kept, id) ==
    kept[CHOOSE i \in 1..Len(kept) :
             /\ kept[i].SourceFile = id
             /\ \A j \in (i + 1)..Len(kept) : kept[j].SourceFile # id]

\* the places of the batch that bring an id the collection has not, each id
\* at its first place
NewPlaces(coll, kept) ==
    SelectSeq([i \in 1..Len(kept) |-> i],
              LAMBDA i : /\ kept[i].SourceFile \notin Range(Ids(coll))
                         /\ \A j \in 1..(i - 1) : kept[j].SourceFile # kept[i].SourceFile)

\* collection.upsert: documents of known ids replaced in place, new ids
\* appended in the order of the batch
Merged(coll, kept, ids, places) ==
    [i \in 1..Len(coll) |->
        IF coll[i].SourceFile \in ids
        THEN CleanMeta(LastWithId(kept, coll[i].SourceFile)) ELSE coll[i]]
    \o [k \in 1..Len(places) |-> CleanMeta(LastWithId(kept, kept[places[k]].SourceFile))]

Upserted(coll, kept) == Merged(coll, kept, Range(Ids(kept)), NewPlaces(coll, kept))

\* Database.upsert_files on a whole batch: the collection UpsertAll gives
upsert_files(coll, metadata_list) == Upserted(coll, WithPath(metadata_list))

\* step 3 of scan_and_cache_photos: upsert and reply
Cache(coll, existing_files, all_paths, metadata_list, followed_clean) ==
    [store |-> IF metadata_list # <<>> THEN upsert_files(coll, metadata_list) ELSE coll,
     last |-> [kind |-> IF metadata_list # <<>> THEN "Successfully indexed"
                        ELSE "No new files found",
               before |-> coll,
               extracted |-> Range(all_paths),
               upserted |-> Ids(metadata_list),
               n |-> Len(metadata_list),
               skipped |-> Cardinality(existing_files),
               followed_clean |-> followed_clean]]

\* a call that returns before step 3
Unscanned(coll, kind, followed_clean) ==
    [store |-> coll,
     last |-> [kind |-> kind, before |-> coll, extracted |-> {}, upserted |-> <<>>,
               n |-> 0, skipped |-> 0, followed_clean |-> followed_clean]]

\* scan_and_cache_photos(): mounted is the answer of mount_device, scan_raises
\* whether get_existing_files_map or scan_photos raises
scan_and_cache_photos(coll, files, mounted, scan_raises, oks, order, followed_clean) ==
    IF ~mounted THEN Unscanned(coll, "Failed to mount", followed_clean)
    ELSE IF scan_raises THEN Unscanned(coll, "Error scanning photos", followed_clean)
    ELSE Cache(coll, get_existing_files_map(coll),
               UncachedPaths(files, get_existing_files_map(coll)),
               scan_photos(files, get_existing_files_map(coll), oks, order),
               followed_clean)

MaxScans == 3
MaxAdded == 1
MaxVersion == 2

\* the numbers of media files on the device at first: none, two, and two more
\* than a full chunk
DeviceCounts == {0, 2, ChunkSize + 2}

InitRescan ==
    /\ device \in {[NoDevice EXCEPT !.files = DeviceListing(n)] : n \in DeviceCounts}
    /\ local = NoLocal
    /\ scan = NoScan
    /\ store = <<>>
    /\ call = NoCall
    /\ ret = NoRet
    /\ cache = NoCache
    /\ disk = NoDisk
    /\ threads = NoThreads
    /\ caller = NoCaller
    /\ initial_docs = <<>>
    /\ prev_docs = <<>>
    /\ current_docs = <<>>
    /\ trail = <<>>
    /\ raised = FALSE

\* the chunks a scan of the device would submit now
ChunksNow == ChunksOf(UncachedPaths(device.files, get_existing_files_map(store)))

\* the orders n futures can complete in
Orders(n) == {r \in [1..n -> 1..n] : \A i, j \in 1..n : i # j => r[i] # r[j]}

\* the handler returned: the store and the device's record of the call
Scanned(result, full) ==
    /\ store' = result.store
    /\ device' = [device EXCEPT !.scans = @ + 1, !.clean = full, !.last = result.last]
    /\ UNCHANGED <<initial_docs, prev_docs, current_docs, trail, raised, call, ret,
                   cache, disk, threads, caller, scan, local>>

ScanAndCachePhotos(mounted, scan_raises, oks, order) ==
    /\ device.scans < MaxScans
    /\ Scanned(scan_and_cache_photos(store, device.files, mounted, scan_raises, oks, order,
                                     device.clean),
               mounted /\ ~scan_raises /\ \A c \in DOMAIN oks : oks[c])

\* the user takes a photo between two scans
AddPhoto ==
    /\ device.added < MaxAdded
    /\ device' = [device EXCEPT
           !.files = Append(@, [path |-> full_path(Len(@)), ext |-> "HEIC", version |-> 1]),
           !.added = @ + 1,
           !.clean = FALSE]
    /\ UNCHANGED <<initial_docs, prev_docs, current_docs, trail, raised, store, call, ret,
                   cache, disk, threads, caller, scan, local>>

\* the user edits a photo between two scans
ModifyPhoto(i) ==
    /\ i \in DOMAIN device.files
    /\ device.files[i].version < MaxVersion
    /\ device' = [device EXCEPT !.files[i].version = @ + 1, !.clean = FALSE]
    /\ UNCHANGED <<initial_docs, prev_docs, current_docs, trail, raised, store, call, ret,
                   cache, disk, threads, caller, scan, local>>

NextRescan ==
    \/ \E mounted \in BOOLEAN, scan_raises \in BOOLEAN,
          oks \in [1..Len(ChunksNow) -> BOOLEAN], order \in Orders(Len(ChunksNow)) :
           ScanAndCachePhotos(mounted, scan_raises, oks, order)
    \/ AddPhoto
    \/ \E i \in {2, ChunkSize + 2} : ModifyPhoto(i)

SpecRescan == InitRescan /\ [][NextRescan]_vars

\* C30: a file whose path is an id of the store when a scan starts is not
\* extracted and not upserted by that scan and its stored document stays as it
\* was; a scan that directly follows a fully successful scan of an unchanged
\* device extracts nothing, upserts nothing and does not report new files.
C30_CachedFilesAreLeftAlone ==
    device.last.kind # "none" =>
        /\ \A i \in 1..Len(device.last.before) :
               /\ i <= Len(store)
               /\ store[i] = device.last.before[i]
               /\ device.last.before[i].SourceFile.s \notin device.last.extracted
               /\ device.last.before[i].SourceFile \notin Range(device.last.upserted)
        /\ device.last.followed_clean =>
               /\ store = device.last.before
               /\ device.last.extracted = {}
               /\ device.last.upserted = <<>>
               /\ device.last.kind \in
                      {"No new files found", "Failed to mount", "Error scanning photos"}

\* a scan indexed new files while a cached file had been edited on the
\* device since it was cached
C30_Witness ==
    /\ device.last.kind = "Successfully indexed"
    /\ device.last.before # <<>>
    /\ \E f \in Range(device.files) :
           /\ f.version > 1
           /\ Str(f.path) \in Range(Ids(device.last.before))

====
